---- MODULE Spec2Model ----
(***************************************************************************)
(* Verification model of the sotto session runtime: the lifecycle FSM,     *)
(* the single-instance socket acquirer and the owner path of the toggle    *)
(* command, the session controller, the capture -> stream pipeline, the    *)
(* recognition stream with its segment merger, and the IPC server.  Each   *)
(* component has its own specification (SpecFSM, SpecAcquire, SpecSession, *)
(* SpecPipeline, SpecStream, SpecMerge, SpecServe); the variables of the   *)
(* other components stay at their initial values under it.                 *)
(***************************************************************************)
EXTENDS Integers, Sequences, FiniteSets, TLC

VARIABLES
    \* ---- fsm.Transition driver --------------------------------------
    fsmCur,      \* state the event sequence has reached
    fsmPrev,     \* state the last event was applied to
    fsmEv,       \* the last event applied ("none" before the first)
    fsmErr,      \* error returned by the last Transition call
    fsmSteps,    \* number of events applied so far
    \* ---- socket path and toggle invocations -------------------------
    sockPath,    \* what the socket path names: "none", "stale" or "socket"
    sockOwner,   \* invocation whose listener created the socket file, else 0
    lnOpen,      \* lnOpen[p]: invocation p holds an open listener
    serving,     \* serving[p]: p's ipc.Serve is accepting connections
    acqPc,       \* position of each toggle invocation
    acqAttempt,  \* Acquire's loop counter
    acqResult,   \* what Acquire / the invocation returned
    own,         \* own[p]: the forward outcome and the owner flow of p
    \* ---- session.Controller ----------------------------------------
    ctlState,    \* Controller.state
    actions,     \* Controller.actions, the buffered action channel
    ctxDone,     \* the context passed to Run has been cancelled
    runPc,       \* position of each Run invocation
    runRes,      \* the Result each Run builds and returns
    runDefer,    \* the deferred indicator.Hide has been registered
    runTaken,    \* the action each Run received from the mailbox
    runEvents,   \* FSM events each Run has applied successfully, in order
    runCalls,    \* collaborator calls each Run has made, in order
    now,         \* the latest reading of the process's monotonic clock
    committed,   \* the Commit calls made: the text passed and the outcome
    hPc,         \* position of each IPC Handle call
    hCmd,        \* its request command
    hResp,       \* its response
    \* ---- pipeline.Transcriber, audio.Capture, riva.Stream ------------
    tr,          \* Transcriber fields, its mutex, and the Start call
    cap,         \* Capture fields and the history of emitted chunks
    src,         \* the source's delivery callback (onPCM) in progress
    stopPc,      \* position of each caller inside Capture.Stop
    snd,         \* the sender task (sendLoop)
    str,         \* Stream fields, the frames sent and the receive task
    term,        \* the terminal call (StopAndTranscribe / Cancel) in progress
    watch,       \* the context watcher StartCapture spawns
    pctx,        \* the context passed to Start has been cancelled
    sa,          \* a direct caller's SendAudio call on the Stream
    cc,          \* a direct caller's CloseAndCollect / Cancel call and its context
    \* ---- ipc.Serve ---------------------------------------------------
    srv,         \* the accept loop, its context, listener and WaitGroup
    conns,       \* the client connections and their server goroutines
    \* ---- transcript.Assemble ----------------------------------------
    asm          \* an Assemble call, its arguments and what it returned

fsmVars == <<fsmCur, fsmPrev, fsmEv, fsmErr, fsmSteps>>
acqVars == <<sockPath, sockOwner, lnOpen, serving, acqPc, acqAttempt, acqResult, own>>

sessVars == <<ctlState, actions, ctxDone, runPc, runRes, runDefer, runTaken, runEvents,
              runCalls, now, committed, hPc, hCmd, hResp>>

pipeVars == <<tr, cap, src, stopPc, snd, str, term, watch, pctx>>

callVars == <<sa, cc>>

srvVars == <<srv, conns>>

vars == <<fsmVars, acqVars, sessVars, pipeVars, callVars, srvVars, asm>>

\* What an action of one component leaves alone.
nonFsmVars  == <<acqVars, sessVars, pipeVars, callVars, srvVars, asm>>
nonAcqVars  == <<fsmVars, sessVars, pipeVars, callVars, srvVars, asm>>
nonSessVars == <<fsmVars, acqVars, pipeVars, callVars, srvVars, asm>>
nonPipeVars == <<fsmVars, acqVars, sessVars, callVars, srvVars, asm>>
nonSrvVars  == <<fsmVars, acqVars, sessVars, pipeVars, callVars, asm>>
nonStreamVars == <<fsmVars, acqVars, sessVars, srvVars, asm>>

----------------------------------------------------------------------------
(* fsm package                                                              *)

StateIdle         == "idle"
StateRecording    == "recording"
StateTranscribing == "transcribing"
StateError        == "error"

EventStart       == "start"
EventStop        == "stop"
EventCancel      == "cancel"
EventTranscribed == "transcribed"
EventFail        == "fail"
EventReset       == "reset"

States == {StateIdle, StateRecording, StateTranscribing, StateError}

\* State is a string type: values that are none of the four constants, a
\* made-up name and the zero value.
UnknownStates == {"mystery", ""}
Events == {EventStart, EventStop, EventCancel, EventTranscribed, EventFail, EventReset}

ErrNil        == "nil"
ErrInvalid    == "invalid transition"
ErrUnknownSt  == "unknown state"

invalidTransition(state, event) == [state |-> state, err |-> ErrInvalid]

\* Mutant of Transition: the fail shortcut is only taken outside the error state.
TransitionNoFailFromError(current, event) ==
    IF event = EventFail /\ current # StateError THEN [state |-> StateError, err |-> ErrNil]
    ELSE IF current = StateIdle THEN
        IF event = EventStart THEN [state |-> StateRecording, err |-> ErrNil]
        ELSE invalidTransition(current, event)
    ELSE IF current = StateRecording THEN
        IF event = EventStop THEN [state |-> StateTranscribing, err |-> ErrNil]
        ELSE IF event = EventCancel THEN [state |-> StateIdle, err |-> ErrNil]
        ELSE invalidTransition(current, event)
    ELSE IF current = StateTranscribing THEN
        IF event = EventTranscribed THEN [state |-> StateIdle, err |-> ErrNil]
        ELSE invalidTransition(current, event)
    ELSE IF current = StateError THEN
        IF event = EventReset THEN [state |-> StateIdle, err |-> ErrNil]
        ELSE invalidTransition(current, event)
    ELSE [state |-> current, err |-> ErrUnknownSt]

\* fsm.Transition: validates and applies one state transition.
Transition(current, event) ==
    IF event = EventFail THEN [state |-> StateError, err |-> ErrNil]
    ELSE IF current = StateIdle THEN
        IF event = EventStart THEN [state |-> StateRecording, err |-> ErrNil]
        ELSE invalidTransition(current, event)
    ELSE IF current = StateRecording THEN
        IF event = EventStop THEN [state |-> StateTranscribing, err |-> ErrNil]
        ELSE IF event = EventCancel THEN [state |-> StateIdle, err |-> ErrNil]
        ELSE invalidTransition(current, event)
    ELSE IF current = StateTranscribing THEN
        IF event = EventTranscribed THEN [state |-> StateIdle, err |-> ErrNil]
        ELSE invalidTransition(current, event)
    ELSE IF current = StateError THEN
        IF event = EventReset THEN [state |-> StateIdle, err |-> ErrNil]
        ELSE invalidTransition(current, event)
    ELSE [state |-> current, err |-> ErrUnknownSt]

\* Bound on the length of the event sequences applied from idle.
MaxFsmEvents == 6

FsmInit ==
    /\ fsmCur = StateIdle
    /\ fsmPrev = StateIdle
    /\ fsmEv = "none"
    /\ fsmErr = ErrNil
    /\ fsmSteps = 0

\* One call next, err := Transition(cur, e); the caller keeps next.
FsmApply ==
    /\ fsmSteps < MaxFsmEvents
    /\ \E e \in Events :
        LET r == Transition(fsmCur, e) IN
        /\ fsmPrev' = fsmCur
        /\ fsmEv' = e
        /\ fsmCur' = r.state
        /\ fsmErr' = r.err
        /\ fsmSteps' = fsmSteps + 1
    /\ UNCHANGED nonFsmVars

----------------------------------------------------------------------------
(* ipc.Acquire and the owner side of commandToggle                          *)

\* Number of concurrent toggle invocations.
NumProcs == 2
Procs == 1..NumProcs

\* retries argument commandToggle passes to ipc.Acquire.
AcquireRetries == 8

\* An invocation before its first step: the outcome of the first
\* tryForward, the Result controller.Run returned, serverCtx, the value
\* ipc.Serve sent on serverErrCh, and what the invocation reported.
NoOwner ==
    [forward |-> "none", run |-> "none", srvCtxDone |-> FALSE,
     srvRet |-> "none", report |-> "none"]

\* The Result of controller.Run as commandToggle reads it: neither
\* Cancelled nor Err, Cancelled, Err (a session that failed to start or one
\* that failed later).
RunOutcomes == {"ok", "cancelled", "error"}

AcqInit ==
    /\ own = [p \in Procs |-> NoOwner]
    /\ sockPath \in {"none", "stale"}
    /\ sockOwner = 0
    /\ lnOpen = [p \in Procs |-> FALSE]
    /\ serving = [p \in Procs |-> FALSE]
    /\ acqPc = [p \in Procs |-> "start"]
    /\ acqAttempt = [p \in Procs |-> 0]
    /\ acqResult = [p \in Procs |-> "none"]

\* A listener is behind the path: the socket file of an open listener.
LiveListener == sockPath = "socket" /\ sockOwner \in Procs /\ lnOpen[sockOwner]

\* tryForward(ctx, socketPath, "toggle") at the head of commandToggle: an
\* answering owner handles the command, with a response that is ok or one
\* that is not (a forward error, like a listener that does not answer within
\* the deadline); a missing socket or a refused connection means no owner,
\* and the invocation goes on to Acquire.
ToggleTryForward(p) ==
    /\ acqPc[p] = "start"
    /\ IF LiveListener /\ serving[sockOwner]
       THEN /\ acqPc' = [acqPc EXCEPT ![p] = "exited"]
            /\ \E res \in {"forwarded", "forward_error"} :
                  acqResult' = [acqResult EXCEPT ![p] = res]
            /\ own' = [own EXCEPT ![p].forward = "handled"]
       ELSE IF LiveListener
       THEN /\ acqPc' = [acqPc EXCEPT ![p] = "exited"]
            /\ acqResult' = [acqResult EXCEPT ![p] = "forward_error"]
            /\ own' = [own EXCEPT ![p].forward = "handled"]
       ELSE /\ acqPc' = [acqPc EXCEPT ![p] = "listen"]
            /\ own' = [own EXCEPT ![p].forward = "no_owner"]
            /\ UNCHANGED acqResult
    /\ UNCHANGED <<sockPath, sockOwner, lnOpen, serving, acqAttempt>>
    /\ UNCHANGED nonAcqVars

\* Acquire step 2: listen at path; success binds the socket file (mode 0600)
\* and returns the listener, address-in-use goes on to the probe.
AcqListen(p) ==
    /\ acqPc[p] = "listen"
    /\ IF sockPath = "none"
       THEN /\ sockPath' = "socket"
            /\ sockOwner' = p
            /\ lnOpen' = [lnOpen EXCEPT ![p] = TRUE]
            /\ acqPc' = [acqPc EXCEPT ![p] = "owner"]
            /\ acqResult' = [acqResult EXCEPT ![p] = "listener"]
       ELSE /\ acqPc' = [acqPc EXCEPT ![p] = "probe"]
            /\ UNCHANGED <<sockPath, sockOwner, lnOpen, acqResult>>
    /\ UNCHANGED <<serving, acqAttempt, own>>
    /\ UNCHANGED nonAcqVars

\* Mutant of Probe: a refused connection (a file with no listener behind
\* it) is reported as a probe error instead of not alive.
ProbeRefusedIsError ==
    IF LiveListener /\ serving[sockOwner] THEN "alive"
    ELSE IF sockPath = "none" THEN "not_alive"
    ELSE "error"

\* Mutant of Probe: a listener that does not answer within the timeout is
\* reported as not alive.
ProbeTimeoutIsNotAlive ==
    IF LiveListener /\ serving[sockOwner] THEN "alive" ELSE "not_alive"

\* Probe: Send(status) answered -> alive; socket missing or connection
\* refused -> not alive; any other failure (a listener that accepts but does
\* not answer within the timeout) -> the probe error.
Probe ==
    IF LiveListener /\ serving[sockOwner] THEN "alive"
    ELSE IF LiveListener THEN "error"
    ELSE "not_alive"

\* Acquire step 3: probe(path, probe_timeout).  alive -> "already running",
\* on which commandToggle forwards once more;
\* a listener that accepts but does not answer in time -> the probe error;
\* refused or missing -> not alive, go on to remove the path.
AcqProbe(p) ==
    /\ acqPc[p] = "probe"
    /\ IF Probe = "alive"
       THEN /\ acqPc' = [acqPc EXCEPT ![p] = "retry"]
            /\ acqResult' = [acqResult EXCEPT ![p] = "already_running"]
       ELSE IF Probe = "error"
       THEN /\ acqPc' = [acqPc EXCEPT ![p] = "exited"]
            /\ acqResult' = [acqResult EXCEPT ![p] = "probe_error"]
       ELSE /\ acqPc' = [acqPc EXCEPT ![p] = "remove"]
            /\ UNCHANGED acqResult
    /\ UNCHANGED <<sockPath, sockOwner, lnOpen, serving, acqAttempt, own>>
    /\ UNCHANGED nonAcqVars

\* Acquire step 3, not alive: remove the stale path (whatever the name now
\* refers to), call rescue, sleep 25ms x (attempt+1), retry up to retries.
AcqRemoveAndRetry(p) ==
    /\ acqPc[p] = "remove"
    /\ sockPath' = "none"
    /\ sockOwner' = 0
    /\ IF acqAttempt[p] < AcquireRetries
       THEN /\ acqAttempt' = [acqAttempt EXCEPT ![p] = @ + 1]
            /\ acqPc' = [acqPc EXCEPT ![p] = "listen"]
            /\ UNCHANGED acqResult
       ELSE /\ acqPc' = [acqPc EXCEPT ![p] = "exited"]
            /\ acqResult' = [acqResult EXCEPT ![p] = "exhausted"]
            /\ UNCHANGED acqAttempt
    /\ UNCHANGED <<lnOpen, serving, own>>
    /\ UNCHANGED nonAcqVars

\* commandToggle after Acquire returned ErrAlreadyRunning: tryForward once
\* more.  Only forwardErr is looked at: an error is reported, anything else
\* (an ok response, or no owner found) prints the response's message, if
\* any, and returns; the invocation's count of attempts is gone with it.
ToggleRetryForward(p) ==
    /\ acqPc[p] = "retry"
    /\ IF LiveListener /\ serving[sockOwner]
       THEN \E rep \in {"message", "error"} :
               own' = [own EXCEPT ![p].forward = "handled", ![p].report = rep]
       ELSE IF LiveListener
       THEN own' = [own EXCEPT ![p].forward = "handled", ![p].report = "error"]
       ELSE own' = [own EXCEPT ![p].forward = "no_owner", ![p].report = "message"]
    /\ acqPc' = [acqPc EXCEPT ![p] = "exited"]
    /\ acqAttempt' = [acqAttempt EXCEPT ![p] = 0]
    /\ UNCHANGED <<sockPath, sockOwner, lnOpen, serving, acqResult>>
    /\ UNCHANGED nonAcqVars

\* The socket file after p's listener is closed: closing a unix listener
\* created by net.Listen unlinks the socket file it created.
Unlinked(p) == IF sockPath = "socket" /\ sockOwner = p THEN "none" ELSE sockPath
UnlinkedOwner(p) == IF sockPath = "socket" /\ sockOwner = p THEN 0 ELSE sockOwner

\* The goroutine commandToggle starts as owner: ipc.Serve(serverCtx,
\* listener, controller) enters its accept loop.  The goroutine can be
\* scheduled at any point before the owner receives from serverErrCh.
OwnerServe(p) ==
    /\ acqPc[p] \in {"owner", "await"}
    /\ ~serving[p]
    /\ own[p].srvRet = "none"
    /\ serving' = [serving EXCEPT ![p] = TRUE]
    /\ UNCHANGED <<sockPath, sockOwner, lnOpen, acqPc, acqAttempt, acqResult, own>>
    /\ UNCHANGED nonAcqVars

\* The goroutine inside Serve: <-ctx.Done(), then listener.Close().
OwnerServeCloseListener(p) ==
    /\ serving[p] \/ own[p].srvRet # "none"
    /\ own[p].srvCtxDone
    /\ lnOpen[p]
    /\ lnOpen' = [lnOpen EXCEPT ![p] = FALSE]
    /\ sockPath' = Unlinked(p)
    /\ sockOwner' = UnlinkedOwner(p)
    /\ UNCHANGED <<serving, acqPc, acqAttempt, acqResult, own>>
    /\ UNCHANGED nonAcqVars

\* Serve: Accept fails on the closed listener (net.ErrClosed), wg.Wait,
\* return nil; the goroutine sends the nil on serverErrCh.
OwnerServeReturn(p) ==
    /\ serving[p]
    /\ ~lnOpen[p]
    /\ serving' = [serving EXCEPT ![p] = FALSE]
    /\ own' = [own EXCEPT ![p].srvRet = ErrNil]
    /\ UNCHANGED <<sockPath, sockOwner, lnOpen, acqPc, acqAttempt, acqResult>>
    /\ UNCHANGED nonAcqVars

\* Serve: Accept fails with another error while the context is live; Serve
\* returns "accept IPC connection: ..." and leaves the listener open.
OwnerServeFail(p) ==
    /\ serving[p]
    /\ lnOpen[p]
    /\ ~own[p].srvCtxDone
    /\ serving' = [serving EXCEPT ![p] = FALSE]
    /\ own' = [own EXCEPT ![p].srvRet = "accept IPC connection"]
    /\ UNCHANGED <<sockPath, sockOwner, lnOpen, acqPc, acqAttempt, acqResult>>
    /\ UNCHANGED nonAcqVars

\* commandToggle as owner: result := controller.Run(ctx), then
\* serverCancel().
OwnerRun(p) ==
    /\ acqPc[p] = "owner"
    /\ \E outcome \in RunOutcomes :
        own' = [own EXCEPT ![p].run = outcome, ![p].srvCtxDone = TRUE]
    /\ acqPc' = [acqPc EXCEPT ![p] = "await"]
    /\ UNCHANGED <<sockPath, sockOwner, lnOpen, serving, acqAttempt, acqResult>>
    /\ UNCHANGED nonAcqVars

\* What the owner prints for a Result: "cancelled", the error, or the
\* transcript.
ReportOf(run) ==
    IF run = "cancelled" THEN "cancelled"
    ELSE IF run = "error" THEN "error"
    ELSE "transcript"

\* Mutant of OwnerReport: the result is reported without the receive from
\* serverErrCh.
OwnerReportNoAwait(p) ==
    /\ acqPc[p] = "await"
    /\ own' = [own EXCEPT ![p].report = ReportOf(own[p].run)]
    /\ lnOpen' = [lnOpen EXCEPT ![p] = FALSE]
    /\ sockPath' = Unlinked(p)
    /\ sockOwner' = UnlinkedOwner(p)
    /\ acqPc' = [acqPc EXCEPT ![p] = "closed"]
    /\ UNCHANGED <<serving, acqAttempt, acqResult>>
    /\ UNCHANGED nonAcqVars

\* commandToggle as owner: serverErr := <-serverErrCh, then "ipc server
\* failed" or the session result is reported and the function returns into
\* its deferred calls, of which serverCancel (a second call) and
\* listener.Close() come first.
OwnerReport(p) ==
    /\ acqPc[p] = "await"
    /\ own[p].srvRet # "none"
    /\ own' = [own EXCEPT ![p].report = IF own[p].srvRet # ErrNil
                                       THEN "ipc server failed"
                                       ELSE ReportOf(own[p].run)]
    /\ lnOpen' = [lnOpen EXCEPT ![p] = FALSE]
    /\ sockPath' = Unlinked(p)
    /\ sockOwner' = UnlinkedOwner(p)
    /\ acqPc' = [acqPc EXCEPT ![p] = "closed"]
    /\ UNCHANGED <<serving, acqAttempt, acqResult>>
    /\ UNCHANGED nonAcqVars

\* commandToggle's deferred calls, last: os.Remove(socketPath), by name;
\* the invocation returns and its locals are gone.
OwnerRemove(p) ==
    /\ acqPc[p] = "closed"
    /\ sockPath' = "none"
    /\ sockOwner' = 0
    /\ acqPc' = [acqPc EXCEPT ![p] = "exited"]
    /\ own' = [own EXCEPT ![p] = NoOwner]
    /\ acqAttempt' = [acqAttempt EXCEPT ![p] = 0]
    /\ UNCHANGED <<lnOpen, serving, acqResult>>
    /\ UNCHANGED nonAcqVars

----------------------------------------------------------------------------
(* session.Controller                                                       *)

\* Run invocations on one Controller (Run is an exported method).
NumRuns == 2
Runs == 1..NumRuns

\* Concurrent IPC connections being handled.
NumHandlers == 2
Handlers == 1..NumHandlers

\* Capacity of Controller.actions.
ActionsCap == 1

actionStop   == "stop"
actionCancel == "cancel"

ErrStart      == "start failed"
ErrCtx        == "context canceled"
ErrStop       == "transcribe failed"
ErrEmptyTranscript == "no speech recognized"
ErrCommit     == "commit failed"
ErrUnknownAction == "unknown action"

\* Transcripts StopAndTranscribe can return, as character sequences: one
\* that is only whitespace and one with text between whitespace.
Transcripts == { <<" ">>, <<" ", "h", "i", " ">> }

\* unicode.IsSpace, for the white space the texts of the model contain.
IsSpace(c) == c \in {" ", "\n"}

RECURSIVE TrimLeft(_)
TrimLeft(t) == IF t # <<>> /\ IsSpace(Head(t)) THEN TrimLeft(Tail(t)) ELSE t

RECURSIVE TrimRight(_)
TrimRight(t) ==
    IF t # <<>> /\ IsSpace(t[Len(t)]) THEN TrimRight(SubSeq(t, 1, Len(t) - 1)) ELSE t

\* Mutant of TrimSpace: the transcript is compared untrimmed.
TrimSpaceOmitted(t) == t

\* strings.TrimSpace
TrimSpace(t) == TrimRight(TrimLeft(t))

\* The zero time.Time of an unset timestamp; the clock reads above it.
ZeroTime == 0

\* How far the clock can have advanced between two readings.
MaxTick == 1

\* time.Now() some time after the last reading: the monotonic clock is never
\* below an earlier reading.
TimeNow == now..(now + MaxTick)

ZeroResult == [state |-> "", err |-> ErrNil, cancelled |-> FALSE, transcript |-> <<>>,
               startedAt |-> ZeroTime, finishedAt |-> ZeroTime]
NoResp == [ok |-> FALSE, state |-> "", message |-> "", error |-> ""]

SessInit ==
    /\ ctlState = StateIdle
    /\ actions = <<>>
    /\ ctxDone = FALSE
    /\ runPc = [r \in Runs |-> "init"]
    /\ runRes = [r \in Runs |-> ZeroResult]
    /\ runDefer = [r \in Runs |-> FALSE]
    /\ runTaken = [r \in Runs |-> "none"]
    /\ runEvents = [r \in Runs |-> <<>>]
    /\ runCalls = [r \in Runs |-> <<>>]
    /\ now = ZeroTime + 1
    /\ committed = <<>>
    /\ hPc = [h \in Handlers |-> "idle"]
    /\ hCmd = [h \in Handlers |-> ""]
    /\ hResp = [h \in Handlers |-> NoResp]

HandlerVars == <<hPc, hCmd, hResp>>

\* Controller.transition(event) by Run r, continuing at okPc or errPc; on an
\* error the state is kept and the error is handed to errSet.
CtlTransition(r, event, okPc, errPc) ==
    LET t == Transition(ctlState, event) IN
    IF t.err = ErrNil
    THEN /\ ctlState' = t.state
         /\ runEvents' = [runEvents EXCEPT ![r] = Append(@, event)]
         /\ runPc' = [runPc EXCEPT ![r] = okPc]
    ELSE /\ UNCHANGED <<ctlState, runEvents>>
         /\ runPc' = [runPc EXCEPT ![r] = errPc]

Called(r, names) == runCalls' = [runCalls EXCEPT ![r] = @ \o names]

\* Run: StartedAt is the clock's reading on entry, then
\* transition(EventStart); failure returns at once.
RunStart(r) ==
    /\ runPc[r] = "init"
    /\ CtlTransition(r, EventStart, "pipelineStart", "return")
    /\ IF Transition(ctlState, EventStart).err = ErrNil
       THEN /\ Called(r, <<"ShowRecording">>)
            /\ runRes' = [runRes EXCEPT ![r].startedAt = now]
       ELSE /\ runRes' = [runRes EXCEPT ![r].startedAt = now,
                                       ![r].err = Transition(ctlState, EventStart).err]
            /\ UNCHANGED runCalls
    /\ UNCHANGED <<actions, ctxDone, runDefer, runTaken, HandlerVars>>
    /\ UNCHANGED <<now, committed>>
    /\ UNCHANGED nonSessVars

\* Run: transcribe.Start(ctx); on success the deferred Hide is registered.
RunPipelineStart(r) ==
    /\ runPc[r] = "pipelineStart"
    /\ \E ok \in BOOLEAN :
        IF ok
        THEN /\ Called(r, <<"Start">>)
             /\ runDefer' = [runDefer EXCEPT ![r] = TRUE]
             /\ runPc' = [runPc EXCEPT ![r] = "wait"]
             /\ UNCHANGED runRes
        ELSE /\ Called(r, <<"Start", "ShowError">>)
             /\ runRes' = [runRes EXCEPT ![r].err = ErrStart]
             /\ runPc' = [runPc EXCEPT ![r] = "toError"]
             /\ UNCHANGED runDefer
    /\ UNCHANGED <<ctlState, actions, ctxDone, runTaken, runEvents, HandlerVars>>
    /\ UNCHANGED <<now, committed>>
    /\ UNCHANGED nonSessVars

\* Mutant of RunCtxDone: the pipeline is not cancelled when the context is
\* done.
RunCtxDoneNoCancel(r) ==
    /\ runPc[r] = "wait"
    /\ ctxDone
    /\ Called(r, <<"CueCancel", "ShowError">>)
    /\ runRes' = [runRes EXCEPT ![r].err = ErrCtx]
    /\ runPc' = [runPc EXCEPT ![r] = "toError"]
    /\ UNCHANGED <<ctlState, actions, ctxDone, runDefer, runTaken, runEvents, HandlerVars>>
    /\ UNCHANGED <<now, committed>>
    /\ UNCHANGED nonSessVars

\* Run: select case <-ctx.Done().
RunCtxDone(r) ==
    /\ runPc[r] = "wait"
    /\ ctxDone
    /\ Called(r, <<"Cancel", "CueCancel", "ShowError">>)
    /\ runRes' = [runRes EXCEPT ![r].err = ErrCtx]
    /\ runPc' = [runPc EXCEPT ![r] = "toError"]
    /\ UNCHANGED <<ctlState, actions, ctxDone, runDefer, runTaken, runEvents, HandlerVars>>
    /\ UNCHANGED <<now, committed>>
    /\ UNCHANGED nonSessVars

\* Run: select case a := <-c.actions, and the switch on a up to its first
\* transition.
RunTakeAction(r) ==
    /\ runPc[r] = "wait"
    /\ actions # <<>>
    /\ actions' = Tail(actions)
    /\ runTaken' = [runTaken EXCEPT ![r] = Head(actions)]
    /\ IF Head(actions) = actionCancel
       THEN /\ Called(r, <<"Cancel", "CueCancel">>)
            /\ runPc' = [runPc EXCEPT ![r] = "cancelTransition"]
            /\ UNCHANGED runRes
       ELSE IF Head(actions) = actionStop
       THEN /\ runPc' = [runPc EXCEPT ![r] = "stopTransition"]
            /\ UNCHANGED <<runCalls, runRes>>
       ELSE /\ runRes' = [runRes EXCEPT ![r].err = ErrUnknownAction]
            /\ runPc' = [runPc EXCEPT ![r] = "toError"]
            /\ UNCHANGED runCalls
    /\ UNCHANGED <<ctlState, ctxDone, runDefer, runEvents, HandlerVars>>
    /\ UNCHANGED <<now, committed>>
    /\ UNCHANGED nonSessVars

\* Mutant of RunCancelTransition: the cancel action goes through
\* toErrorAndReset instead of the cancel event.
RunCancelViaFail(r) ==
    /\ runPc[r] = "cancelTransition"
    /\ CtlTransition(r, EventFail, "toReset", "toReset")
    /\ runRes' = [runRes EXCEPT ![r].cancelled = TRUE]
    /\ UNCHANGED <<actions, ctxDone, runDefer, runTaken, runCalls, HandlerVars>>
    /\ UNCHANGED <<now, committed>>
    /\ UNCHANGED nonSessVars

\* Run, actionCancel: _ = transition(EventCancel); Cancelled = true.
RunCancelTransition(r) ==
    /\ runPc[r] = "cancelTransition"
    /\ CtlTransition(r, EventCancel, "return", "return")
    /\ runRes' = [runRes EXCEPT ![r].cancelled = TRUE]
    /\ UNCHANGED <<actions, ctxDone, runDefer, runTaken, runCalls, HandlerVars>>
    /\ UNCHANGED <<now, committed>>
    /\ UNCHANGED nonSessVars

\* Run, actionStop: transition(EventStop), then ShowTranscribing.
RunStopTransition(r) ==
    /\ runPc[r] = "stopTransition"
    /\ CtlTransition(r, EventStop, "stopAndTranscribe", "toError")
    /\ IF Transition(ctlState, EventStop).err = ErrNil
       THEN /\ Called(r, <<"ShowTranscribing">>)
            /\ UNCHANGED runRes
       ELSE /\ runRes' = [runRes EXCEPT ![r].err = Transition(ctlState, EventStop).err]
            /\ UNCHANGED runCalls
    /\ UNCHANGED <<actions, ctxDone, runDefer, runTaken, HandlerVars>>
    /\ UNCHANGED <<now, committed>>
    /\ UNCHANGED nonSessVars

\* Mutant of RunStopAndTranscribe: the stop cue is played only when
\* StopAndTranscribe succeeded.
RunStopAndTranscribeCueOnSuccess(r) ==
    /\ runPc[r] = "stopAndTranscribe"
    /\ \/ /\ Called(r, <<"StopAndTranscribe", "ShowError">>)
          /\ runRes' = [runRes EXCEPT ![r].err = ErrStop]
          /\ runPc' = [runPc EXCEPT ![r] = "toError"]
       \/ \E t \in Transcripts :
            IF TrimSpace(t) = <<>>
            THEN /\ Called(r, <<"StopAndTranscribe", "CueStop", "ShowError">>)
                 /\ runRes' = [runRes EXCEPT ![r].err = ErrEmptyTranscript,
                                             ![r].transcript = t]
                 /\ runPc' = [runPc EXCEPT ![r] = "toError"]
            ELSE /\ Called(r, <<"StopAndTranscribe", "CueStop">>)
                 /\ runRes' = [runRes EXCEPT ![r].transcript = t]
                 /\ runPc' = [runPc EXCEPT ![r] = "commit"]
    /\ UNCHANGED <<ctlState, actions, ctxDone, runDefer, runTaken, runEvents, HandlerVars>>
    /\ UNCHANGED <<now, committed>>
    /\ UNCHANGED nonSessVars

\* Run, actionStop: StopAndTranscribe, CueStop, and the error and
\* empty-transcript checks.
RunStopAndTranscribe(r) ==
    /\ runPc[r] = "stopAndTranscribe"
    /\ \/ /\ Called(r, <<"StopAndTranscribe", "CueStop", "ShowError">>)
          /\ runRes' = [runRes EXCEPT ![r].err = ErrStop]
          /\ runPc' = [runPc EXCEPT ![r] = "toError"]
       \/ \E t \in Transcripts :
            IF TrimSpace(t) = <<>>
            THEN /\ Called(r, <<"StopAndTranscribe", "CueStop", "ShowError">>)
                 /\ runRes' = [runRes EXCEPT ![r].err = ErrEmptyTranscript,
                                             ![r].transcript = t]
                 /\ runPc' = [runPc EXCEPT ![r] = "toError"]
            ELSE /\ Called(r, <<"StopAndTranscribe", "CueStop">>)
                 /\ runRes' = [runRes EXCEPT ![r].transcript = t]
                 /\ runPc' = [runPc EXCEPT ![r] = "commit"]
    /\ UNCHANGED <<ctlState, actions, ctxDone, runDefer, runTaken, runEvents, HandlerVars>>
    /\ UNCHANGED <<now, committed>>
    /\ UNCHANGED nonSessVars

\* Mutant of RunCommit: a Commit error is ignored and the run goes on as
\* if the transcript had been committed.
RunCommitErrorIgnored(r) ==
    /\ runPc[r] = "commit"
    /\ \E ok \in BOOLEAN :
        /\ committed' = Append(committed, [by |-> r, text |-> runRes[r].transcript, ok |-> ok])
        /\ Called(r, <<"Commit", "CueComplete">>)
        /\ runPc' = [runPc EXCEPT ![r] = "transcribed"]
        /\ UNCHANGED runRes
    /\ UNCHANGED <<ctlState, actions, ctxDone, runDefer, runTaken, runEvents, HandlerVars>>
    /\ UNCHANGED now
    /\ UNCHANGED nonSessVars

\* Run, actionStop: commit.Commit(ctx, stopResult.Transcript); CueComplete
\* on success.
RunCommit(r) ==
    /\ runPc[r] = "commit"
    /\ \E ok \in BOOLEAN :
        /\ committed' = Append(committed, [by |-> r, text |-> runRes[r].transcript, ok |-> ok])
        /\ IF ok
           THEN /\ Called(r, <<"Commit", "CueComplete">>)
                /\ runPc' = [runPc EXCEPT ![r] = "transcribed"]
                /\ UNCHANGED runRes
           ELSE /\ Called(r, <<"Commit", "ShowError">>)
                /\ runRes' = [runRes EXCEPT ![r].err = ErrCommit]
                /\ runPc' = [runPc EXCEPT ![r] = "toError"]
    /\ UNCHANGED <<ctlState, actions, ctxDone, runDefer, runTaken, runEvents, HandlerVars>>
    /\ UNCHANGED now
    /\ UNCHANGED nonSessVars

\* Run, actionStop: transition(EventTranscribed).
RunTranscribed(r) ==
    /\ runPc[r] = "transcribed"
    /\ CtlTransition(r, EventTranscribed, "return", "return")
    /\ IF Transition(ctlState, EventTranscribed).err = ErrNil
       THEN UNCHANGED runRes
       ELSE runRes' = [runRes EXCEPT ![r].err = Transition(ctlState, EventTranscribed).err]
    /\ UNCHANGED <<actions, ctxDone, runDefer, runTaken, runCalls, HandlerVars>>
    /\ UNCHANGED <<now, committed>>
    /\ UNCHANGED nonSessVars

\* Mutant of RunToError: the state is set to idle by assignment, not by the
\* two transitions.
RunToErrorAssignsIdle(r) ==
    /\ runPc[r] = "toError"
    /\ ctlState' = StateIdle
    /\ runPc' = [runPc EXCEPT ![r] = "return"]
    /\ UNCHANGED <<actions, ctxDone, runRes, runDefer, runTaken, runEvents, runCalls,
                   HandlerVars>>
    /\ UNCHANGED <<now, committed>>
    /\ UNCHANGED nonSessVars

\* toErrorAndReset, first half: _ = transition(EventFail).
RunToError(r) ==
    /\ runPc[r] = "toError"
    /\ CtlTransition(r, EventFail, "toReset", "toReset")
    /\ UNCHANGED <<actions, ctxDone, runRes, runDefer, runTaken, runCalls, HandlerVars>>
    /\ UNCHANGED <<now, committed>>
    /\ UNCHANGED nonSessVars

\* toErrorAndReset, second half: _ = transition(EventReset).
RunToReset(r) ==
    /\ runPc[r] = "toReset"
    /\ CtlTransition(r, EventReset, "return", "return")
    /\ UNCHANGED <<actions, ctxDone, runRes, runDefer, runTaken, runCalls, HandlerVars>>
    /\ UNCHANGED <<now, committed>>
    /\ UNCHANGED nonSessVars

\* Run: result.State = c.State(), result.FinishedAt = time.Now(), return
\* result; a registered deferred indicator.Hide runs on the way out.
RunReturn(r) ==
    /\ runPc[r] = "return"
    /\ \E t \in TimeNow :
        /\ now' = t
        /\ runRes' = [runRes EXCEPT ![r].state = ctlState, ![r].finishedAt = t]
    /\ IF runDefer[r] THEN Called(r, <<"Hide">>) ELSE UNCHANGED runCalls
    /\ runPc' = [runPc EXCEPT ![r] = "done"]
    /\ UNCHANGED <<ctlState, actions, ctxDone, runDefer, runTaken, runEvents, HandlerVars>>
    /\ UNCHANGED committed
    /\ UNCHANGED nonSessVars

\* The owner's context is cancelled.
CtxCancel ==
    /\ ~ctxDone
    /\ ctxDone' = TRUE
    /\ UNCHANGED <<ctlState, actions, runPc, runRes, runDefer, runTaken, runEvents, runCalls,
                   HandlerVars>>
    /\ UNCHANGED <<now, committed>>
    /\ UNCHANGED nonSessVars

\* The commands the sotto command line forwards to the owner.
Commands == {"status", "toggle", "stop", "cancel"}

Respond(h, resp) ==
    /\ hResp' = [hResp EXCEPT ![h] = resp]
    /\ hPc' = [hPc EXCEPT ![h] = "done"]

\* Mutant of Handle: requestStop lacks the "not recording" refusal and goes
\* on to the send from idle and error too.
HandleStopUnguarded(h, cmd) ==
    /\ hPc[h] = "idle"
    /\ hCmd' = [hCmd EXCEPT ![h] = cmd]
    /\ IF cmd = "status"
       THEN Respond(h, [NoResp EXCEPT !.ok = TRUE, !.state = ctlState, !.message = "status"])
       ELSE IF cmd \in {"toggle", "stop"}
       THEN IF ctlState = StateTranscribing
            THEN Respond(h, [NoResp EXCEPT !.state = ctlState, !.error = "already transcribing"])
            ELSE hPc' = [hPc EXCEPT ![h] = "enqueue"] /\ UNCHANGED hResp
       ELSE IF cmd = "cancel"
       THEN IF ctlState = StateTranscribing
            THEN Respond(h, [NoResp EXCEPT !.state = ctlState,
                                           !.error = "cannot cancel while transcribing"])
            ELSE IF ctlState # StateRecording
            THEN Respond(h, [NoResp EXCEPT !.state = ctlState, !.error = "cannot " \o cmd \o " from state " \o ctlState])
            ELSE hPc' = [hPc EXCEPT ![h] = "enqueue"] /\ UNCHANGED hResp
       ELSE Respond(h, [NoResp EXCEPT !.state = ctlState, !.error = "unknown command"])
    /\ UNCHANGED <<ctlState, actions, ctxDone, runPc, runRes, runDefer, runTaken, runEvents, runCalls>>
    /\ UNCHANGED <<now, committed>>
    /\ UNCHANGED nonSessVars

\* Handle: the switch on req.Command, and for toggle/stop/cancel the State()
\* snapshot and the state guards of requestStop / requestCancel.  A request
\* that passes the guards has seen StateRecording and goes on to the send.
Handle(h, cmd) ==
    /\ hPc[h] = "idle"
    /\ hCmd' = [hCmd EXCEPT ![h] = cmd]
    /\ IF cmd = "status"
       THEN Respond(h, [NoResp EXCEPT !.ok = TRUE, !.state = ctlState, !.message = "status"])
       ELSE IF cmd \in {"toggle", "stop"}
       THEN IF ctlState = StateTranscribing
            THEN Respond(h, [NoResp EXCEPT !.state = ctlState, !.error = "already transcribing"])
            ELSE IF ctlState # StateRecording
            THEN Respond(h, [NoResp EXCEPT !.state = ctlState, !.error = "cannot " \o cmd \o " from state " \o ctlState])
            ELSE hPc' = [hPc EXCEPT ![h] = "enqueue"] /\ UNCHANGED hResp
       ELSE IF cmd = "cancel"
       THEN IF ctlState = StateTranscribing
            THEN Respond(h, [NoResp EXCEPT !.state = ctlState,
                                           !.error = "cannot cancel while transcribing"])
            ELSE IF ctlState # StateRecording
            THEN Respond(h, [NoResp EXCEPT !.state = ctlState, !.error = "cannot " \o cmd \o " from state " \o ctlState])
            ELSE hPc' = [hPc EXCEPT ![h] = "enqueue"] /\ UNCHANGED hResp
       ELSE Respond(h, [NoResp EXCEPT !.state = ctlState, !.error = "unknown command"])
    /\ UNCHANGED <<ctlState, actions, ctxDone, runPc, runRes, runDefer, runTaken, runEvents, runCalls>>
    /\ UNCHANGED <<now, committed>>
    /\ UNCHANGED nonSessVars

\* The action a command enqueues and the word its reply starts with.
ActionOf(cmd) == IF cmd = "cancel" THEN actionCancel ELSE actionStop

\* Mutant of TrySend: a full mailbox is overwritten with the new action.
TrySendOverwrite(h) ==
    /\ actions' = <<ActionOf(hCmd[h])>>
    /\ Respond(h, [NoResp EXCEPT !.ok = TRUE, !.state = StateRecording,
                                 !.message = ActionOf(hCmd[h]) \o " requested"])

\* requestStop / requestCancel: select { case c.actions <- a: ... default: ... }
TrySend(h) ==
    IF Len(actions) < ActionsCap
    THEN /\ actions' = Append(actions, ActionOf(hCmd[h]))
         /\ Respond(h, [NoResp EXCEPT !.ok = TRUE, !.state = StateRecording,
                                      !.message = ActionOf(hCmd[h]) \o " requested"])
    ELSE /\ UNCHANGED actions
         /\ Respond(h, [NoResp EXCEPT !.ok = TRUE, !.state = StateRecording,
                                      !.message = ActionOf(hCmd[h]) \o " already requested"])

HandleEnqueue(h) ==
    /\ hPc[h] = "enqueue"
    /\ TrySend(h)
    /\ UNCHANGED <<ctlState, ctxDone, runPc, runRes, runDefer, runTaken, runEvents, runCalls,
                   hCmd>>
    /\ UNCHANGED <<now, committed>>
    /\ UNCHANGED nonSessVars

\* The connection is closed; the server goroutine slot serves another one.
HandleClose(h) ==
    /\ hPc[h] = "done"
    /\ hPc' = [hPc EXCEPT ![h] = "idle"]
    /\ hCmd' = [hCmd EXCEPT ![h] = ""]
    /\ hResp' = [hResp EXCEPT ![h] = NoResp]
    /\ UNCHANGED <<ctlState, actions, ctxDone, runPc, runRes, runDefer, runTaken, runEvents, runCalls>>
    /\ UNCHANGED <<now, committed>>
    /\ UNCHANGED nonSessVars

----------------------------------------------------------------------------
(* audio.Capture                                                            *)

\* Bytes per emitted chunk (20ms at 16kHz mono s16).
chunkSizeBytes == 640

\* Slots of the chunk channel in the model (the code allocates 128).
QueueCap == 2

\* Buffers the source delivers in one session, and their possible sizes:
\* less than a chunk, and two chunks plus a remainder.
MaxDeliveries == 2
DeliverySizes == {111, 2 * chunkSizeBytes + 111}

\* The goroutines that call Capture.Stop: a terminal method of the
\* pipeline, the sender task after a send error, the context watcher.
StopCallers == {"term", "send", "watch"}

\* A chunk is the slice [lo, lo+len) of the byte stream the source delivered.
Chunk(lo, len) == <<lo, len>>

CapInit ==
    cap = [live |-> FALSE, stopped |-> FALSE, closed |-> FALSE, closeCount |-> 0,
           sendAfterClose |-> FALSE, inflight |-> 0, pendLo |-> 0, rawLen |-> 0,
           bytes |-> 0, emitted |-> <<>>, read |-> 0]

SrcInit == src = [pc |-> "idle", len |-> 0, todo |-> <<>>, count |-> 0]

\* Chunks waiting in the channel.
QueueLen == Len(cap.emitted) - cap.read
QueueFull == QueueLen >= QueueCap

\* c.chunks <- chunk (sending on a closed channel is recorded).
Emit(c, chunk) ==
    [c EXCEPT !.emitted = Append(@, chunk),
              !.sendAfterClose = @ \/ c.closed]

\* The fixed-size chunks onPCM cuts from pending [pendLo, rawLen).
CutChunks(pendLo, rawLen) ==
    [i \in 1..((rawLen - pendLo) \div chunkSizeBytes) |->
        Chunk(pendLo + (i - 1) * chunkSizeBytes, chunkSizeBytes)]

\* onPCM up to c.mu.Unlock(): the stopCh and stopped checks, inflight.Add,
\* the appends to rawPCM and pending, and the cutting of full chunks.
OnPCMEnter ==
    /\ cap.live
    /\ src.pc = "idle"
    /\ src.count < MaxDeliveries
    /\ \E n \in DeliverySizes :
        IF cap.stopped
        THEN /\ src' = [src EXCEPT !.pc = "eof"]
             /\ UNCHANGED cap
        ELSE LET raw == cap.rawLen + n
                 cut == CutChunks(cap.pendLo, raw) IN
             /\ cap' = [cap EXCEPT !.inflight = @ + 1,
                                   !.rawLen = raw,
                                   !.pendLo = @ + Len(cut) * chunkSizeBytes]
             /\ src' = [src EXCEPT !.pc = "count", !.len = n, !.todo = cut]
    /\ UNCHANGED <<tr, stopPc, snd, str, term, watch, pctx>>
    /\ UNCHANGED nonPipeVars

\* onPCM: c.bytes.Add(int64(len(buffer))).
OnPCMCount ==
    /\ src.pc = "count"
    /\ cap' = [cap EXCEPT !.bytes = @ + src.len]
    /\ src' = [src EXCEPT !.pc = "send"]
    /\ UNCHANGED <<tr, stopPc, snd, str, term, watch, pctx>>
    /\ UNCHANGED nonPipeVars

\* onPCM send loop, case c.chunks <- chunk.
OnPCMSendChunk ==
    /\ src.pc = "send"
    /\ src.todo # <<>>
    /\ ~QueueFull
    /\ cap' = Emit(cap, Head(src.todo))
    /\ src' = [src EXCEPT !.todo = Tail(@)]
    /\ UNCHANGED <<tr, stopPc, snd, str, term, watch, pctx>>
    /\ UNCHANGED nonPipeVars

\* onPCM send loop, case <-c.stopCh: return 0, io.EOF (deferred Done).
OnPCMStopped ==
    /\ src.pc = "send"
    /\ src.todo # <<>>
    /\ cap.stopped
    /\ cap' = [cap EXCEPT !.inflight = @ - 1]
    /\ src' = [src EXCEPT !.pc = "eof", !.todo = <<>>]
    /\ UNCHANGED <<tr, stopPc, snd, str, term, watch, pctx>>
    /\ UNCHANGED nonPipeVars

\* onPCM: return len(buffer), nil (deferred Done).
OnPCMReturn ==
    /\ src.pc = "send"
    /\ src.todo = <<>>
    /\ cap' = [cap EXCEPT !.inflight = @ - 1]
    /\ src' = [src EXCEPT !.pc = "idle", !.count = @ + 1]
    /\ UNCHANGED <<tr, stopPc, snd, str, term, watch, pctx>>
    /\ UNCHANGED nonPipeVars

\* Stop, first critical section: a call that finds stopped set returns at
\* once; the first call sets stopped and closes stopCh.
StopEnter(c) ==
    /\ stopPc[c] = "call"
    /\ IF cap.stopped
       THEN /\ stopPc' = [stopPc EXCEPT ![c] = "ret"]
            /\ UNCHANGED cap
       ELSE /\ stopPc' = [stopPc EXCEPT ![c] = "wait"]
            /\ cap' = [cap EXCEPT !.stopped = TRUE]
    /\ UNCHANGED <<tr, src, snd, str, term, watch, pctx>>
    /\ UNCHANGED nonPipeVars

\* Mutant of InflightDrained: Stop does not wait for deliveries in flight.
InflightNotAwaited == TRUE

\* c.inflight.Wait() returns.
InflightDrained == cap.inflight = 0

\* Stop: stream and client are closed, then inflight.Wait().
StopWait(c) ==
    /\ stopPc[c] = "wait"
    /\ InflightDrained
    /\ stopPc' = [stopPc EXCEPT ![c] = "flush"]
    /\ UNCHANGED <<tr, cap, src, snd, str, term, watch, pctx>>
    /\ UNCHANGED nonPipeVars

\* Stop: take pending, and send it with select { case c.chunks <- chunk:
\* default: } when it is not empty.
StopFlush(c) ==
    /\ stopPc[c] = "flush"
    /\ LET n == cap.rawLen - cap.pendLo
           taken == [cap EXCEPT !.pendLo = cap.rawLen] IN
       cap' = IF n > 0 /\ ~QueueFull THEN Emit(taken, Chunk(cap.pendLo, n)) ELSE taken
    /\ stopPc' = [stopPc EXCEPT ![c] = "close"]
    /\ UNCHANGED <<tr, src, snd, str, term, watch, pctx>>
    /\ UNCHANGED nonPipeVars

\* Stop: close(c.chunks); return nil.
StopClose(c) ==
    /\ stopPc[c] = "close"
    /\ cap' = [cap EXCEPT !.closed = TRUE, !.closeCount = @ + 1]
    /\ stopPc' = [stopPc EXCEPT ![c] = "ret"]
    /\ UNCHANGED <<tr, src, snd, str, term, watch, pctx>>
    /\ UNCHANGED nonPipeVars

\* StartCapture's goroutine: <-ctx.Done(); capture.Stop().
WatchFire ==
    /\ watch = "wait"
    /\ pctx
    /\ watch' = "stopping"
    /\ stopPc' = [stopPc EXCEPT !["watch"] = "call"]
    /\ UNCHANGED <<tr, cap, src, snd, str, term, pctx>>
    /\ UNCHANGED nonPipeVars

WatchDone ==
    /\ watch = "stopping"
    /\ stopPc["watch"] = "ret"
    /\ watch' = "done"
    /\ stopPc' = [stopPc EXCEPT !["watch"] = "none"]
    /\ UNCHANGED <<tr, cap, src, snd, str, term, pctx>>
    /\ UNCHANGED nonPipeVars

\* The context given to Start is cancelled.
PipeCtxCancel ==
    /\ ~pctx
    /\ pctx' = TRUE
    /\ UNCHANGED <<tr, cap, src, stopPc, snd, str, term, watch>>
    /\ UNCHANGED nonPipeVars

----------------------------------------------------------------------------
(* riva.Stream                                                              *)

\* Recognition texts, as character sequences: the hypotheses of the merger
\* scenario, one with untidy whitespace and one that is only whitespace.
HelloWor == <<"h", "e", "l", "l", "o", " ", "w", "o", "r">>
HelloWorld == <<"h", "e", "l", "l", "o", " ", "w", "o", "r", "l", "d">>
SecondPhrase == <<"s", "e", "c", "o", "n", "d", " ", "p", "h", "r", "a", "s", "e">>
Untidy == <<" ", " ", "h", "e", "l", "l", "o", " ", " ", "w", "o", "r", "l", "d", "\n">>
Blank == <<" ", "\n">>
RawTexts == {HelloWor, HelloWorld, SecondPhrase, Untidy, Blank}

\* Recognition results the receive task processes in one stream: when the
\* merger is looked at on its own, and when the stream's calls are.
MaxResults == 3
MaxStreamResults == 1

\* strings.Fields: the maximal runs of non-space characters.
RECURSIVE FirstWord(_)
FirstWord(raw) ==
    IF raw = <<>> \/ IsSpace(Head(raw)) THEN <<>>
    ELSE <<Head(raw)>> \o FirstWord(Tail(raw))

RECURSIVE Fields(_)
Fields(raw) ==
    IF raw = <<>> THEN <<>>
    ELSE IF IsSpace(Head(raw)) THEN Fields(Tail(raw))
    ELSE <<FirstWord(raw)>> \o Fields(SubSeq(raw, Len(FirstWord(raw)) + 1, Len(raw)))

\* strings.Join(words, " ")
RECURSIVE Join(_)
Join(words) ==
    IF words = <<>> THEN <<>>
    ELSE IF Len(words) = 1 THEN words[1]
    ELSE words[1] \o <<" ">> \o Join(Tail(words))

\* cleanSegment
cleanSegment(raw) ==
    IF TrimSpace(raw) = <<>> THEN <<>> ELSE Join(Fields(TrimSpace(raw)))

\* strings.HasPrefix
HasPrefix(s, prefix) ==
    Len(prefix) <= Len(s) /\ SubSeq(s, 1, Len(prefix)) = prefix

\* Mutant of appendSegment: a retracted prefix replaces the longer last
\* segment.
appendSegmentRetractReplaces(segments, transcript) ==
    LET t == cleanSegment(transcript) IN
    IF t = <<>> THEN [out |-> segments, backing |-> segments]
    ELSE IF segments = <<>> THEN [out |-> <<t>>, backing |-> segments]
    ELSE LET last == cleanSegment(segments[Len(segments)])
             replaced == [segments EXCEPT ![Len(segments)] = t]
         IN IF t = last THEN [out |-> segments, backing |-> segments]
            ELSE IF HasPrefix(t, last) THEN [out |-> replaced, backing |-> replaced]
            ELSE IF HasPrefix(last, t) THEN [out |-> replaced, backing |-> replaced]
            ELSE [out |-> Append(segments, t), backing |-> segments]

\* appendSegment: the slice it returns (out) and what the argument slice
\* holds afterwards (backing): the prefix-extension case assigns to the last
\* element in place, and an append never writes below len(segments).
appendSegment(segments, transcript) ==
    LET t == cleanSegment(transcript) IN
    IF t = <<>> THEN [out |-> segments, backing |-> segments]
    ELSE IF segments = <<>> THEN [out |-> <<t>>, backing |-> segments]
    ELSE LET last == cleanSegment(segments[Len(segments)])
             replaced == [segments EXCEPT ![Len(segments)] = t]
         IN IF t = last THEN [out |-> segments, backing |-> segments]
            ELSE IF HasPrefix(t, last) THEN [out |-> replaced, backing |-> replaced]
            ELSE IF HasPrefix(last, t) THEN [out |-> segments, backing |-> segments]
            ELSE [out |-> Append(segments, t), backing |-> segments]

\* Mutant of collectSegments: the committed slice is passed to appendSegment
\* without being copied first.
collectSegmentsNoCopy(committedSegments, lastInterim) ==
    LET interim == cleanSegment(lastInterim) IN
    IF interim # <<>>
    THEN [out |-> appendSegment(committedSegments, interim).out,
          committed |-> appendSegment(committedSegments, interim).backing]
    ELSE [out |-> committedSegments, committed |-> committedSegments]

\* collectSegments: the list it returns (out) and what the caller's committed
\* slice holds afterwards; appendSegment works on a copy.
collectSegments(committedSegments, lastInterim) ==
    LET segments == committedSegments
        interim == cleanSegment(lastInterim)
    IN IF interim # <<>>
       THEN [out |-> appendSegment(segments, interim).out, committed |-> committedSegments]
       ELSE [out |-> segments, committed |-> committedSegments]

\* Mutant of recordResponse: an interim that is no prefix relative of the
\* previous one commits the previous interim first.
recordResponsePrecommit(s, raw, final) ==
    LET transcript == cleanSegment(raw) IN
    IF transcript = <<>> THEN s
    ELSE IF final
    THEN [s EXCEPT !.segments = appendSegment(s.segments, transcript).out,
                   !.lastInterim = <<>>]
    ELSE [s EXCEPT !.segments = IF \/ HasPrefix(transcript, s.lastInterim)
                                   \/ HasPrefix(s.lastInterim, transcript)
                                THEN @
                                ELSE appendSegment(@, s.lastInterim).out,
                   !.lastInterim = transcript]

\* recordResponse for a response with one result: its first alternative's
\* transcript raw and its is_final flag.
recordResponse(s, raw, final) ==
    LET transcript == cleanSegment(raw) IN
    IF transcript = <<>> THEN s
    ELSE IF final
    THEN [s EXCEPT !.segments = appendSegment(s.segments, transcript).out,
                   !.lastInterim = <<>>]
    ELSE [s EXCEPT !.lastInterim = transcript]

StrZero ==
    [live |-> FALSE, closedSend |-> FALSE, closedBy |-> "none", closeAt |-> 0,
     recvErr |-> ErrNil, recvDone |-> FALSE, cancelCalls |-> 0,
     connCloseCalls |-> 0, sent |-> <<>>,
     segments |-> <<>>, lastInterim |-> <<>>, results |-> 0, lastKind |-> "none"]

StrInit == str = StrZero

\* Stream.Cancel: mark send-closed (CloseSend if it was open), cancel the
\* stream context, close the connection.
StreamCancel(s) ==
    [s EXCEPT !.closedSend = TRUE,
              !.closedBy = IF s.closedSend THEN @ ELSE "cancel",
              !.closeAt = IF s.closedSend THEN @ ELSE Len(s.sent),
              !.cancelCalls = @ + 1,
              !.connCloseCalls = @ + 1]

\* CloseAndCollect, first critical section: mark send-closed and CloseSend.
StreamCloseSend(s) ==
    [s EXCEPT !.closedSend = TRUE,
              !.closedBy = IF s.closedSend THEN @ ELSE "collect",
              !.closeAt = IF s.closedSend THEN @ ELSE Len(s.sent)]

\* CloseAndCollect on either select branch: s.cancel() and s.conn.Close().
StreamRelease(s) ==
    [s EXCEPT !.cancelCalls = @ + 1, !.connCloseCalls = @ + 1]

\* recvLoop: Recv fails (transport failure, or the stream was cancelled);
\* recvErr is recorded and recvDone is closed.
RecvError ==
    /\ str.live
    /\ ~str.recvDone
    /\ str' = [str EXCEPT !.recvErr = IF str.cancelCalls > 0 THEN ErrCtx
                                       ELSE "transport failure",
                          !.recvDone = TRUE]
    /\ UNCHANGED <<tr, cap, src, stopPc, snd, term, watch, pctx>>
    /\ UNCHANGED nonPipeVars

\* recvLoop: Recv returns io.EOF (the server ended the stream, normally
\* after the send half was closed); recvDone is closed, recvErr stays nil.
RecvEOF ==
    /\ str.live
    /\ ~str.recvDone
    /\ str.cancelCalls = 0
    /\ str' = [str EXCEPT !.recvDone = TRUE]
    /\ UNCHANGED <<tr, cap, src, stopPc, snd, term, watch, pctx>>
    /\ UNCHANGED nonPipeVars

\* recvLoop: Recv returns a response, one of at most max; recordResponse
\* merges it.  lastKind notes what kind of result came in: one without text,
\* a final, an interim.
RecvResult(max) ==
    /\ str.live
    /\ ~str.recvDone
    /\ str.results < max
    /\ \E raw \in RawTexts, final \in BOOLEAN :
        str' = [recordResponse(str, raw, final) EXCEPT
                   !.results = @ + 1,
                   !.lastKind = IF cleanSegment(raw) = <<>> THEN "dropped"
                                ELSE IF final THEN "final" ELSE "interim"]
    /\ UNCHANGED <<tr, cap, src, stopPc, snd, term, watch, pctx>>
    /\ UNCHANGED nonPipeVars

\* Direct calls on the Stream: SendAudio calls of one caller.
MaxSends == 2
ChunkLens == {0, chunkSizeBytes}

\* Direct calls on the Stream: CloseAndCollect and Cancel calls.
MaxCloseCalls == 2

CallInit ==
    /\ sa = [pc |-> "idle", n |-> 0, calls |-> 0, ret |-> "none"]
    /\ cc = [pc |-> "idle", op |-> "none", calls |-> 0, ctxDone |-> FALSE,
             ctxAtCall |-> FALSE, err |-> "none", hasSegs |-> FALSE, segs |-> <<>>]

SendAudioReturn(n, err) == sa' = [pc |-> "idle", n |-> n, calls |-> sa.calls + 1, ret |-> err]

\* Mutant of CallSendAudio: the closedSend check is missing.
CallSendAudioNoClosedCheck(n) ==
    /\ str.live
    /\ sa.pc = "idle"
    /\ sa.calls < MaxSends
    /\ IF n = 0
       THEN SendAudioReturn(n, ErrNil)
       ELSE IF str.recvErr # ErrNil
       THEN SendAudioReturn(n, "stream receive loop failed: " \o str.recvErr)
       ELSE sa' = [sa EXCEPT !.pc = "frame", !.n = n]
    /\ UNCHANGED <<str, cc>>
    /\ UNCHANGED <<tr, cap, src, stopPc, snd, term, watch, pctx>>
    /\ UNCHANGED nonStreamVars

\* Stream.SendAudio(chunk) with len(chunk) = n: the length check, then the
\* closedSend and recvErr checks under s.mu.
CallSendAudio(n) ==
    /\ str.live
    /\ sa.pc = "idle"
    /\ sa.calls < MaxSends
    /\ IF n = 0
       THEN SendAudioReturn(n, ErrNil)
       ELSE IF str.closedSend
       THEN SendAudioReturn(n, "stream already closed for sending")
       ELSE IF str.recvErr # ErrNil
       THEN SendAudioReturn(n, "stream receive loop failed: " \o str.recvErr)
       ELSE sa' = [sa EXCEPT !.pc = "frame", !.n = n]
    /\ UNCHANGED <<str, cc>>
    /\ UNCHANGED <<tr, cap, src, stopPc, snd, term, watch, pctx>>
    /\ UNCHANGED nonStreamVars

\* Stream.SendAudio: s.stream.Send(audio frame), which succeeds or fails.
CallSendAudioFrame ==
    /\ sa.pc = "frame"
    /\ \E ok \in BOOLEAN :
        IF ok
        THEN /\ str' = [str EXCEPT !.sent = Append(@, Chunk(0, sa.n))]
             /\ SendAudioReturn(sa.n, ErrNil)
        ELSE /\ SendAudioReturn(sa.n, "send failed")
             /\ UNCHANGED str
    /\ UNCHANGED cc
    /\ UNCHANGED <<tr, cap, src, stopPc, snd, term, watch, pctx>>
    /\ UNCHANGED nonStreamVars

\* The context the caller passes to CloseAndCollect is cancelled or times
\* out, before or during the call.
CallCtxCancel ==
    /\ ~cc.ctxDone
    /\ cc' = [cc EXCEPT !.ctxDone = TRUE]
    /\ UNCHANGED <<str, sa>>
    /\ UNCHANGED <<tr, cap, src, stopPc, snd, term, watch, pctx>>
    /\ UNCHANGED nonStreamVars

\* Stream.CloseAndCollect(ctx), first critical section.
CallCloseAndCollect ==
    /\ str.live
    /\ cc.pc = "idle"
    /\ cc.calls < MaxCloseCalls
    /\ str' = StreamCloseSend(str)
    /\ cc' = [cc EXCEPT !.pc = "select", !.op = "collect", !.ctxAtCall = cc.ctxDone,
                        !.err = "none", !.hasSegs = FALSE, !.segs = <<>>]
    /\ UNCHANGED sa
    /\ UNCHANGED <<tr, cap, src, stopPc, snd, term, watch, pctx>>
    /\ UNCHANGED nonStreamVars

\* Mutant of CollectRecvDone: the recorded receive error is not looked at.
CollectRecvDoneIgnoresRecvErr ==
    /\ cc.pc = "select"
    /\ str.recvDone
    /\ LET c == collectSegments(str.segments, str.lastInterim) IN
        /\ cc' = [cc EXCEPT !.pc = "idle", !.calls = @ + 1, !.err = ErrNil,
                            !.hasSegs = TRUE, !.segs = c.out]
        /\ str' = [StreamRelease(str) EXCEPT !.segments = c.committed]
    /\ UNCHANGED sa
    /\ UNCHANGED <<tr, cap, src, stopPc, snd, term, watch, pctx>>
    /\ UNCHANGED nonStreamVars

\* Stream.CloseAndCollect: select case <-s.recvDone, then under s.mu the
\* recvErr check and collectSegments; the deferred cancel and conn.Close.
CollectRecvDone ==
    /\ cc.pc = "select"
    /\ str.recvDone
    /\ IF str.recvErr # ErrNil
       THEN /\ cc' = [cc EXCEPT !.pc = "idle", !.calls = @ + 1, !.err = str.recvErr]
            /\ str' = StreamRelease(str)
       ELSE LET c == collectSegments(str.segments, str.lastInterim) IN
            /\ cc' = [cc EXCEPT !.pc = "idle", !.calls = @ + 1, !.err = ErrNil,
                                !.hasSegs = TRUE, !.segs = c.out]
            /\ str' = [StreamRelease(str) EXCEPT !.segments = c.committed]
    /\ UNCHANGED sa
    /\ UNCHANGED <<tr, cap, src, stopPc, snd, term, watch, pctx>>
    /\ UNCHANGED nonStreamVars

\* Stream.CloseAndCollect: select case <-ctx.Done(): cancel, conn.Close,
\* return nil, 0, ctx.Err().
CollectCtxDone ==
    /\ cc.pc = "select"
    /\ cc.ctxDone
    /\ cc' = [cc EXCEPT !.pc = "idle", !.calls = @ + 1, !.err = ErrCtx]
    /\ str' = StreamRelease(str)
    /\ UNCHANGED sa
    /\ UNCHANGED <<tr, cap, src, stopPc, snd, term, watch, pctx>>
    /\ UNCHANGED nonStreamVars

\* Stream.Cancel()
CallCancel ==
    /\ str.live
    /\ cc.pc = "idle"
    /\ cc.calls < MaxCloseCalls
    /\ str' = StreamCancel(str)
    /\ cc' = [cc EXCEPT !.op = "cancel", !.calls = @ + 1, !.err = ErrNil,
                        !.hasSegs = FALSE, !.segs = <<>>]
    /\ UNCHANGED sa
    /\ UNCHANGED <<tr, cap, src, stopPc, snd, term, watch, pctx>>
    /\ UNCHANGED nonStreamVars

----------------------------------------------------------------------------
(* pipeline.Transcriber                                                     *)

\* Terminal calls the owner makes on one Transcriber, one after the other.
MaxTermCalls == 2

TrInit ==
    /\ tr \in { [mu |-> "free", started |-> FALSE, capture |-> FALSE, stream |-> FALSE,
                 errChMade |-> FALSE, errCh |-> <<>>, debug |-> "nil", cfgDump |-> d,
                 startPc |-> "init", startErr |-> "nil"] : d \in BOOLEAN }
    /\ snd = [pc |-> "none", chunk |-> <<>>, err |-> "nil", reported |-> 0]
    /\ term = [pc |-> "idle", kind |-> "none", calls |-> 0, sendErr |-> "nil",
               err |-> "nil"]
    /\ stopPc = [c \in StopCallers |-> "none"]
    /\ watch = "none"
    /\ pctx = FALSE

PipeInit == TrInit /\ CapInit /\ SrcInit /\ StrInit

\* Start: t.mu.Lock() (held until Start returns), and the started check.
StartBegin ==
    /\ tr.startPc = "init"
    /\ tr.mu = "free"
    /\ tr' = IF tr.started
             THEN [tr EXCEPT !.mu = "start", !.startErr = "already started", !.startPc = "ret"]
             ELSE [tr EXCEPT !.mu = "start", !.startPc = "prepare"]
    /\ UNCHANGED <<cap, src, stopPc, snd, str, term, watch, pctx>>
    /\ UNCHANGED nonPipeVars

\* Start: SelectDevice, BuildSpeechPhrases, and the debug sink when
\* debug.grpc_dump is enabled; any of them failing returns the error.
StartPrepare ==
    /\ tr.startPc = "prepare"
    /\ \E outcome \in {"ok", "select device", "build speech contexts", "open debug file"} :
        /\ outcome = "open debug file" => tr.cfgDump
        /\ tr' = IF outcome = "ok"
                 THEN [tr EXCEPT !.debug = IF tr.cfgDump THEN "open" ELSE @,
                                 !.startPc = "dial"]
                 ELSE [tr EXCEPT !.startErr = outcome, !.startPc = "ret"]
    /\ UNCHANGED <<cap, src, stopPc, snd, str, term, watch, pctx>>
    /\ UNCHANGED nonPipeVars

\* Start: riva.DialStream; on failure closeDebugArtifacts, return err.
StartDial ==
    /\ tr.startPc = "dial"
    /\ \E ok \in BOOLEAN :
        IF ok
        THEN /\ tr' = [tr EXCEPT !.stream = TRUE, !.startPc = "capture"]
             /\ str' = [str EXCEPT !.live = TRUE]
        ELSE /\ tr' = [tr EXCEPT !.startErr = "dial", !.startPc = "closeDebug"]
             /\ UNCHANGED str
    /\ UNCHANGED <<cap, src, stopPc, snd, term, watch, pctx>>
    /\ UNCHANGED nonPipeVars

\* Start: audio.StartCapture (which spawns the context watcher); on failure
\* stream.Cancel(), closeDebugArtifacts, return err.
StartCaptureStep ==
    /\ tr.startPc = "capture"
    /\ \E ok \in BOOLEAN :
        IF ok
        THEN /\ tr' = [tr EXCEPT !.capture = TRUE, !.startPc = "spawn"]
             /\ cap' = [cap EXCEPT !.live = TRUE]
             /\ watch' = "wait"
             /\ UNCHANGED str
        ELSE /\ tr' = [tr EXCEPT !.startErr = "capture", !.startPc = "closeDebug"]
             /\ str' = StreamCancel(str)
             /\ UNCHANGED <<cap, watch>>
    /\ UNCHANGED <<src, stopPc, snd, term, pctx>>
    /\ UNCHANGED nonPipeVars

\* Start: sendErrCh = make(chan error, 1); go sendLoop(); started = true.
StartSpawn ==
    /\ tr.startPc = "spawn"
    /\ tr' = [tr EXCEPT !.errChMade = TRUE, !.started = TRUE, !.startPc = "ret"]
    /\ snd' = [snd EXCEPT !.pc = "init"]
    /\ UNCHANGED <<cap, src, stopPc, str, term, watch, pctx>>
    /\ UNCHANGED nonPipeVars

\* Start returns: the deferred t.mu.Unlock().
StartReturn ==
    /\ tr.startPc = "ret"
    /\ tr' = [tr EXCEPT !.mu = "free", !.startPc = "done"]
    /\ UNCHANGED <<cap, src, stopPc, snd, str, term, watch, pctx>>
    /\ UNCHANGED nonPipeVars

\* closeDebugArtifacts: t.mu.Lock(); close and forget the debug sink;
\* unlock.  Called by Start on its failure paths and by the terminal methods.
CloseDebugArtifacts(who) ==
    /\ IF who = "start" THEN tr.startPc = "closeDebug" ELSE term.pc = "closeDebug"
    /\ tr.mu = "free"
    /\ IF who = "start"
       THEN /\ tr' = [tr EXCEPT !.debug = IF @ = "open" THEN "closed" ELSE @,
                                !.startPc = "ret"]
            /\ UNCHANGED term
       ELSE /\ tr' = [tr EXCEPT !.debug = IF @ = "open" THEN "closed" ELSE @]
            /\ term' = [term EXCEPT !.pc = "ret"]
    /\ UNCHANGED <<cap, src, stopPc, snd, str, watch, pctx>>
    /\ UNCHANGED nonPipeVars

\* sendLoop: read capture, stream and errCh under t.mu.
SendLoopInit ==
    /\ snd.pc = "init"
    /\ tr.mu = "free"
    /\ IF ~tr.errChMade
       THEN snd' = [snd EXCEPT !.pc = "done"]
       ELSE IF ~tr.capture \/ ~tr.stream
       THEN snd' = [snd EXCEPT !.pc = "report", !.err = "pipeline unavailable"]
       ELSE snd' = [snd EXCEPT !.pc = "range"]
    /\ UNCHANGED <<tr, cap, src, stopPc, str, term, watch, pctx>>
    /\ UNCHANGED nonPipeVars

\* sendLoop: for chunk := range capture.Chunks(), one chunk received.
SendLoopRecv ==
    /\ snd.pc = "range"
    /\ QueueLen > 0
    /\ cap' = [cap EXCEPT !.read = @ + 1]
    /\ snd' = [snd EXCEPT !.pc = "check", !.chunk = cap.emitted[cap.read + 1]]
    /\ UNCHANGED <<tr, src, stopPc, str, term, watch, pctx>>
    /\ UNCHANGED nonPipeVars

\* sendLoop: the range ends (channel closed and drained); deferred
\* sendResult(nil).
SendLoopDrained ==
    /\ snd.pc = "range"
    /\ QueueLen = 0
    /\ cap.closed
    /\ tr' = [tr EXCEPT !.errCh = Append(@, "nil")]
    /\ snd' = [snd EXCEPT !.pc = "done", !.reported = @ + 1]
    /\ UNCHANGED <<cap, src, stopPc, str, term, watch, pctx>>
    /\ UNCHANGED nonPipeVars

\* Stream.SendAudio: the closedSend and recvErr checks under s.mu.
SendAudioCheck ==
    /\ snd.pc = "check"
    /\ IF str.closedSend
       THEN /\ snd' = [snd EXCEPT !.pc = "stop", !.err = "stream already closed for sending"]
            /\ stopPc' = [stopPc EXCEPT !["send"] = "call"]
       ELSE IF str.recvErr # ErrNil
       THEN /\ snd' = [snd EXCEPT !.pc = "stop", !.err = "stream receive loop failed"]
            /\ stopPc' = [stopPc EXCEPT !["send"] = "call"]
       ELSE /\ snd' = [snd EXCEPT !.pc = "frame"]
            /\ UNCHANGED stopPc
    /\ UNCHANGED <<tr, cap, src, str, term, watch, pctx>>
    /\ UNCHANGED nonPipeVars

\* Stream.SendAudio: s.stream.Send(audio frame), which succeeds or fails.
SendAudioFrame ==
    /\ snd.pc = "frame"
    /\ \E ok \in BOOLEAN :
        IF ok
        THEN /\ str' = [str EXCEPT !.sent = Append(@, snd.chunk)]
             /\ snd' = [snd EXCEPT !.pc = "range"]
             /\ UNCHANGED stopPc
        ELSE /\ snd' = [snd EXCEPT !.pc = "stop", !.err = "send failed"]
             /\ stopPc' = [stopPc EXCEPT !["send"] = "call"]
             /\ UNCHANGED str
    /\ UNCHANGED <<tr, cap, src, term, watch, pctx>>
    /\ UNCHANGED nonPipeVars

\* Mutant of SendLoopReport: sendResult has no sent flag, so the deferred
\* sendResult(nil) sends as well.
SendLoopReportTwice ==
    /\ \/ snd.pc = "stop" /\ stopPc["send"] = "ret"
       \/ snd.pc = "report"
    /\ tr' = [tr EXCEPT !.errCh = @ \o <<snd.err, "nil">>]
    /\ snd' = [snd EXCEPT !.pc = "done", !.reported = @ + 2]
    /\ stopPc' = [stopPc EXCEPT !["send"] = "none"]
    /\ UNCHANGED <<cap, src, str, term, watch, pctx>>
    /\ UNCHANGED nonPipeVars

\* sendLoop after a send error: capture.Stop() has returned; sendResult(err).
SendLoopReport ==
    /\ \/ snd.pc = "stop" /\ stopPc["send"] = "ret"
       \/ snd.pc = "report"
    /\ tr' = [tr EXCEPT !.errCh = Append(@, snd.err)]
    /\ snd' = [snd EXCEPT !.pc = "done", !.reported = @ + 1]
    /\ stopPc' = [stopPc EXCEPT !["send"] = "none"]
    /\ UNCHANGED <<cap, src, str, term, watch, pctx>>
    /\ UNCHANGED nonPipeVars

\* StopAndTranscribe / Cancel: the fields are read under t.mu; a pipeline
\* that is not started (or, for Cancel, has no capture) skips capture.Stop().
TermCall(kind) ==
    /\ term.pc = "idle"
    /\ term.calls < MaxTermCalls
    /\ tr.startPc = "done"
    /\ tr.startErr = "nil"
    /\ tr.mu = "free"
    /\ IF kind = "stop" /\ (~tr.started \/ ~tr.capture \/ ~tr.stream)
       THEN /\ term' = [term EXCEPT !.kind = kind, !.pc = "ret", !.sendErr = "nil",
                                    !.err = "pipeline unavailable"]
            /\ UNCHANGED stopPc
       ELSE IF kind = "cancel" /\ ~tr.capture
       THEN /\ term' = [term EXCEPT !.kind = kind, !.pc = "streamCancel", !.sendErr = "nil",
                                    !.err = "nil"]
            /\ UNCHANGED stopPc
       ELSE /\ term' = [term EXCEPT !.kind = kind, !.pc = "stopping", !.sendErr = "nil",
                                    !.err = "nil"]
            /\ stopPc' = [stopPc EXCEPT !["term"] = "call"]
    /\ UNCHANGED <<tr, cap, src, snd, str, watch, pctx>>
    /\ UNCHANGED nonPipeVars

\* capture.Stop() has returned to the terminal method.
TermStopped ==
    /\ term.pc = "stopping"
    /\ stopPc["term"] = "ret"
    /\ stopPc' = [stopPc EXCEPT !["term"] = "none"]
    /\ term' = [term EXCEPT !.pc = IF term.kind = "stop" THEN "await" ELSE "streamCancel"]
    /\ UNCHANGED <<tr, cap, src, snd, str, watch, pctx>>
    /\ UNCHANGED nonPipeVars

\* Mutant of SendOutcome: StopAndTranscribe does not wait for the sender's
\* outcome and goes on as if it were nil.
SendOutcomeNotAwaited ==
    [ready |-> TRUE, val |-> "nil", rest |-> <<>>]

\* sendErr = <-sendErrCh: ready once the sender task has reported.
SendOutcome ==
    [ready |-> tr.errCh # <<>>,
     val |-> IF tr.errCh # <<>> THEN Head(tr.errCh) ELSE "nil",
     rest |-> IF tr.errCh # <<>> THEN Tail(tr.errCh) ELSE <<>>]

\* StopAndTranscribe: sendErr = <-sendErrCh.
TermAwaitSendErr ==
    /\ term.pc = "await"
    /\ SendOutcome.ready
    /\ tr' = [tr EXCEPT !.errCh = SendOutcome.rest]
    /\ term' = [term EXCEPT !.sendErr = SendOutcome.val,
                            !.err = IF SendOutcome.val = "nil" THEN "nil" ELSE "send audio stream",
                            !.pc = IF SendOutcome.val = "nil" THEN "closeSend" ELSE "streamCancel"]
    /\ UNCHANGED <<cap, src, stopPc, snd, str, watch, pctx>>
    /\ UNCHANGED nonPipeVars

\* stream.Cancel() by a terminal method, then writeDebugAudio.
TermStreamCancel ==
    /\ term.pc = "streamCancel"
    /\ str' = IF tr.stream THEN StreamCancel(str) ELSE str
    /\ term' = [term EXCEPT !.pc = "closeDebug"]
    /\ UNCHANGED <<tr, cap, src, stopPc, snd, watch, pctx>>
    /\ UNCHANGED nonPipeVars

\* stream.CloseAndCollect(closeCtx), first critical section.
TermCloseSend ==
    /\ term.pc = "closeSend"
    /\ str' = StreamCloseSend(str)
    /\ term' = [term EXCEPT !.pc = "collect"]
    /\ UNCHANGED <<tr, cap, src, stopPc, snd, watch, pctx>>
    /\ UNCHANGED nonPipeVars

\* stream.CloseAndCollect: select on recvDone and closeCtx.Done() (the 20 s
\* timeout or the caller's context); both branches release the connection.
TermCollect ==
    /\ term.pc = "collect"
    /\ \/ /\ str.recvDone
          /\ term' = [term EXCEPT !.pc = "closeDebug",
                                  !.err = IF str.recvErr # ErrNil THEN "collect final transcript"
                                                         ELSE "nil"]
       \/ term' = [term EXCEPT !.pc = "closeDebug", !.err = "collect final transcript"]
    /\ str' = StreamRelease(str)
    /\ UNCHANGED <<tr, cap, src, stopPc, snd, watch, pctx>>
    /\ UNCHANGED nonPipeVars

\* The terminal method returns.
TermReturn ==
    /\ term.pc = "ret"
    /\ term' = [term EXCEPT !.pc = "idle", !.calls = @ + 1]
    /\ UNCHANGED <<tr, cap, src, stopPc, snd, str, watch, pctx>>
    /\ UNCHANGED nonPipeVars

----------------------------------------------------------------------------
(* ipc.Serve                                                                *)

\* Client connections made to the listener while Serve runs.
NumConns == 2
Conns == 1..NumConns

\* Request lines a client writes on one connection.
MaxLines == 2
Lines == {"valid", "invalid"}

NoConn == [st |-> "none", inbuf |-> <<>>, peerClosed |-> FALSE, read |-> <<>>,
           handled |-> 0, resp |-> <<>>]

SrvInit ==
    /\ srv = [pc |-> "accept", ctxDone |-> FALSE, lnClosed |-> FALSE, wg |-> 0,
              ret |-> "none"]
    /\ conns = [c \in Conns |-> NoConn]

\* A client dials the socket: the connection waits in the listener's backlog.
ClientDial(c) ==
    /\ conns[c].st = "none"
    /\ ~srv.lnClosed
    /\ conns' = [conns EXCEPT ![c].st = "backlog"]
    /\ UNCHANGED srv
    /\ UNCHANGED nonSrvVars

\* A client writes one more line on its connection, before the server has
\* read from it.  Only the first line is ever decoded, so the lines behind
\* it are all taken to be well-formed.
ClientWrite(c, line) ==
    /\ conns[c].st \in {"backlog", "read"}
    /\ conns[c].inbuf = <<>> \/ line = "valid"
    /\ ~conns[c].peerClosed
    /\ Len(conns[c].inbuf) + Len(conns[c].read) < MaxLines
    /\ conns' = [conns EXCEPT ![c].inbuf = Append(@, line)]
    /\ UNCHANGED srv
    /\ UNCHANGED nonSrvVars

\* A client closes its end before the response is written.
ClientClose(c) ==
    /\ conns[c].st \in {"backlog", "read", "handle"}
    /\ ~conns[c].peerClosed
    /\ conns' = [conns EXCEPT ![c].peerClosed = TRUE]
    /\ UNCHANGED srv
    /\ UNCHANGED nonSrvVars

\* The context passed to Serve is cancelled.
SrvCtxCancel ==
    /\ ~srv.ctxDone
    /\ srv' = [srv EXCEPT !.ctxDone = TRUE]
    /\ UNCHANGED conns
    /\ UNCHANGED nonSrvVars

\* go func() { <-ctx.Done(); _ = listener.Close() }(): connections still in
\* the backlog are dropped with the listener.
SrvCloseListener ==
    /\ srv.ctxDone
    /\ ~srv.lnClosed
    /\ srv' = [srv EXCEPT !.lnClosed = TRUE]
    /\ conns' = [c \in Conns |->
                   IF conns[c].st = "backlog" THEN [NoConn EXCEPT !.st = "dropped"]
                   ELSE conns[c]]
    /\ UNCHANGED nonSrvVars

\* Mutant of SrvAccept: the connection goroutine is not added to the
\* WaitGroup.
SrvAcceptNoAdd(c) ==
    /\ srv.pc = "accept"
    /\ ~srv.lnClosed
    /\ conns[c].st = "backlog"
    /\ conns' = [conns EXCEPT ![c].st = "read"]
    /\ UNCHANGED srv
    /\ UNCHANGED nonSrvVars

\* listener.Accept() returns a connection: wg.Add(1), go func(c net.Conn).
SrvAccept(c) ==
    /\ srv.pc = "accept"
    /\ ~srv.lnClosed
    /\ conns[c].st = "backlog"
    /\ conns' = [conns EXCEPT ![c].st = "read"]
    /\ srv' = [srv EXCEPT !.wg = @ + 1]
    /\ UNCHANGED nonSrvVars

\* listener.Accept() returns an error: net.ErrClosed once the listener is
\* closed, or another error while it is open.  With net.ErrClosed or a
\* cancelled context Serve goes on to wg.Wait(); otherwise it returns the
\* wrapped error at once.
SrvAcceptError ==
    /\ srv.pc = "accept"
    /\ IF srv.lnClosed \/ srv.ctxDone
       THEN srv' = [srv EXCEPT !.pc = "wait"]
       ELSE srv' = [srv EXCEPT !.pc = "returned", !.ret = "accept IPC connection"]
    /\ UNCHANGED conns
    /\ UNCHANGED nonSrvVars

\* wg.Wait(); return nil.
SrvWaitReturn ==
    /\ srv.pc = "wait"
    /\ srv.wg = 0
    /\ srv' = [srv EXCEPT !.pc = "returned", !.ret = "nil"]
    /\ UNCHANGED conns
    /\ UNCHANGED nonSrvVars

\* json.NewEncoder(c).Encode(resp), its error ignored: the response and
\* whether the peer was still connected to receive it.
Encode(conn, resp) ==
    [conn EXCEPT !.resp = Append(@, [line |-> resp, delivered |-> ~conn.peerClosed]),
                 !.st = "closing"]

\* Mutant of ConnRead: a line that fails to decode is passed on to the
\* handler.
ConnReadNoDecodeCheck(c) ==
    /\ conns[c].st = "read"
    /\ conns[c].inbuf # <<>> \/ conns[c].peerClosed
    /\ IF conns[c].inbuf = <<>>
       THEN conns' = [conns EXCEPT ![c] = Encode(@, "read request:")]
       ELSE conns' = [conns EXCEPT ![c].inbuf = Tail(@),
                                   ![c].read = Append(@, Head(conns[c].inbuf)),
                                   ![c].st = "handle"]
    /\ UNCHANGED srv
    /\ UNCHANGED nonSrvVars

\* The connection goroutine: reader.ReadBytes('\n') and json.Unmarshal.
\* ReadBytes returns when a line has arrived or the peer has closed.
ConnRead(c) ==
    /\ conns[c].st = "read"
    /\ conns[c].inbuf # <<>> \/ conns[c].peerClosed
    /\ IF conns[c].inbuf = <<>>
       THEN conns' = [conns EXCEPT ![c] = Encode(@, "read request:")]
       ELSE IF Head(conns[c].inbuf) = "invalid"
       THEN conns' = [conns EXCEPT ![c] =
                        Encode([@ EXCEPT !.inbuf = Tail(@), !.read = Append(@, "invalid")],
                               "decode request:")]
       ELSE conns' = [conns EXCEPT ![c].inbuf = Tail(@),
                                   ![c].read = Append(@, Head(conns[c].inbuf)),
                                   ![c].st = "handle"]
    /\ UNCHANGED srv
    /\ UNCHANGED nonSrvVars

\* resp := handler.Handle(ctx, req); Encode(resp).
ConnHandle(c) ==
    /\ conns[c].st = "handle"
    /\ \E r \in {"ok", "refused"} :
        conns' = [conns EXCEPT ![c] = Encode([@ EXCEPT !.handled = @ + 1], r)]
    /\ UNCHANGED srv
    /\ UNCHANGED nonSrvVars

\* The deferred c.Close() and wg.Done().
ConnClose(c) ==
    /\ conns[c].st = "closing"
    /\ conns' = [conns EXCEPT ![c].st = "closed"]
    /\ srv' = [srv EXCEPT !.wg = @ - 1]
    /\ UNCHANGED nonSrvVars

----------------------------------------------------------------------------
(* transcript.Assemble                                                      *)

\* The runes the segment texts are written with: two lower-case letters, a
\* space, a sentence end, an apostrophe, a digit, a closing bracket and a
\* hyphen.  The typographic apostrophe is not among them.
AsmAlphabet == {"i", "m", " ", ".", "'", "2", ")", "-"}

\* unicode.IsLetter, unicode.IsDigit and unicode.ToUpper on these runes and
\* on what ToUpper makes of them
IsLetter(r) == r \in {"i", "m", "I", "M"}
IsDigit(r) == r = "2"
ToUpper(r) == CASE r = "i" -> "I" [] r = "m" -> "M" [] OTHER -> r

\* isSentencePrefixRune
isSentencePrefixRune(r) == r \in {")", "]", "}", "'", "\""}

\* The loop of capitalizeSentenceStarts over the runes still to be read,
\* with its three flags.
RECURSIVE capitalizeFrom(_, _, _, _)
capitalizeFrom(text, capitalizeStart, pendingBoundary, sawWhitespaceAfterBoundary) ==
    IF text = <<>> THEN <<>>
    ELSE
        LET r == Head(text)
            start == capitalizeStart /\ IsLetter(r)
            waiting == ~start /\ pendingBoundary
            w == IF start \/ (waiting /\ ~IsSpace(r) /\ IsLetter(r)
                                /\ sawWhitespaceAfterBoundary)
                 THEN ToUpper(r) ELSE r
            pending == IF ~waiting THEN pendingBoundary
                       ELSE IF IsSpace(r) THEN TRUE
                       ELSE IF IsLetter(r) \/ IsDigit(r) THEN FALSE
                       ELSE IF isSentencePrefixRune(r) THEN TRUE
                       ELSE sawWhitespaceAfterBoundary
            saw == IF ~waiting THEN sawWhitespaceAfterBoundary
                   ELSE IF IsSpace(r) THEN TRUE
                   ELSE IF IsLetter(r) \/ IsDigit(r) THEN FALSE
                   ELSE sawWhitespaceAfterBoundary
            sentenceEnd == w \in {".", "!", "?"}
        IN  <<w>> \o capitalizeFrom(Tail(text), capitalizeStart /\ ~start,
                                    sentenceEnd \/ pending,
                                    ~sentenceEnd /\ saw)

\* capitalizeSentenceStarts
capitalizeSentenceStarts(text) == capitalizeFrom(text, TRUE, FALSE, FALSE)

\* The regular expression's \b between rune k and rune k + 1: exactly one of
\* the two is a word rune (an ASCII letter, a digit or an underscore).
IsWordRune(r) == IsLetter(r) \/ IsDigit(r) \/ r = "_"
WordBoundary(text, k) ==
    (k >= 1 /\ IsWordRune(text[k])) # (k < Len(text) /\ IsWordRune(text[k + 1]))

\* What may follow the apostrophe in pronounIContractionPattern
ContractionTails ==
    {<<"m">>, <<"d">>, <<"l", "l">>, <<"v", "e">>, <<"r", "e">>, <<"s">>}

\* pronounIContractionPattern matches at rune k
MatchesContraction(text, k) ==
    /\ text[k] = "i"
    /\ WordBoundary(text, k - 1)
    /\ k + 1 <= Len(text)
    /\ text[k + 1] = "'"
    /\ \E t \in ContractionTails :
          /\ k + 1 + Len(t) <= Len(text)
          /\ SubSeq(text, k + 2, k + 1 + Len(t)) = t
          /\ WordBoundary(text, k + 1 + Len(t))

\* pronounIWordPattern matches at rune k
MatchesWordI(text, k) ==
    text[k] = "i" /\ WordBoundary(text, k - 1) /\ WordBoundary(text, k)

\* capitalizeSentences: the sentence starts, then "I" in place of the first
\* rune of every contraction match, then "I" in place of every lone i.
capitalizeSentences(text) ==
    LET started == capitalizeSentenceStarts(text)
        contracted == [k \in 1..Len(started) |->
                         IF MatchesContraction(started, k) THEN "I" ELSE started[k]]
    IN  [k \in 1..Len(contracted) |->
           IF MatchesWordI(contracted, k) THEN "I" ELSE contracted[k]]

\* Mutant of Assemble: the joined text is not split into fields and joined
\* again.
AssembleUnnormalized(finalSegments, opts) ==
    IF finalSegments = <<>> THEN <<>>
    ELSE
        LET normalized == Join(finalSegments)
            text == IF opts.CapitalizeSentences
                    THEN capitalizeSentences(normalized) ELSE normalized
        IN  IF normalized = <<>> THEN <<>>
            ELSE IF opts.TrailingSpace THEN text \o <<" ">>
            ELSE text

\* Assemble
Assemble(finalSegments, opts) ==
    IF finalSegments = <<>> THEN <<>>
    ELSE
        LET joined == Join(finalSegments)
            normalized == Join(Fields(joined))
            text == IF opts.CapitalizeSentences
                    THEN capitalizeSentences(normalized) ELSE normalized
        IN  IF normalized = <<>> THEN <<>>
            ELSE IF opts.TrailingSpace THEN text \o <<" ">>
            ELSE text

\* The longest segment text of a one-segment list, and of a two-segment list
MaxTextLen == 4
MaxPairLen == 1

\* Every text of at most n runes
TextsUpTo(n) == UNION {[1..k -> AsmAlphabet] : k \in 0..n}

\* The segment lists Assemble is called on: none, one segment, two segments
SegmentLists ==
    {<<>>} \cup {<<t>> : t \in TextsUpTo(MaxTextLen)}
           \cup {<<t, u>> : t \in TextsUpTo(MaxPairLen), u \in TextsUpTo(MaxPairLen)}

\* Options
AssembleOptions == [TrailingSpace : BOOLEAN, CapitalizeSentences : BOOLEAN]

AsmInit ==
    \E xs \in SegmentLists, opts \in AssembleOptions :
        asm = [pc |-> "ready", xs |-> xs, opts |-> opts,
               first |-> <<>>, second |-> <<>>]

\* Assemble(xs, opts)
AsmAssemble ==
    /\ asm.pc = "ready"
    /\ asm' = [asm EXCEPT !.pc = "once", !.first = Assemble(asm.xs, asm.opts)]
    /\ UNCHANGED <<fsmVars, acqVars, sessVars, pipeVars, callVars, srvVars>>

\* Assemble([]string{first}, opts) on what the first call returned
AsmReassemble ==
    /\ asm.pc = "once"
    /\ asm' = [asm EXCEPT !.pc = "twice",
                          !.second = Assemble(<<asm.first>>, asm.opts)]
    /\ UNCHANGED <<fsmVars, acqVars, sessVars, pipeVars, callVars, srvVars>>

----------------------------------------------------------------------------
(* Specifications                                                           *)

\* A component that takes no part in a specification is not constructed
\* under it: its variables hold Absent and no action reads them.
Absent == "absent"
FsmQuiet ==
    /\ fsmCur = Absent /\ fsmPrev = Absent /\ fsmEv = Absent
    /\ fsmErr = Absent /\ fsmSteps = Absent
AcqQuiet ==
    /\ sockPath = Absent /\ sockOwner = Absent /\ lnOpen = Absent
    /\ serving = Absent /\ acqPc = Absent /\ acqAttempt = Absent
    /\ acqResult = Absent /\ own = Absent
SessQuiet ==
    /\ ctlState = Absent /\ actions = Absent /\ ctxDone = Absent
    /\ runPc = Absent /\ runRes = Absent /\ runDefer = Absent
    /\ runTaken = Absent /\ runEvents = Absent /\ runCalls = Absent
    /\ now = Absent /\ committed = Absent
    /\ hPc = Absent /\ hCmd = Absent /\ hResp = Absent
CapQuiet ==
    /\ tr = Absent /\ cap = Absent /\ src = Absent /\ stopPc = Absent
    /\ snd = Absent /\ term = Absent /\ watch = Absent /\ pctx = Absent
CallQuiet == sa = Absent /\ cc = Absent
PipeQuiet == CapQuiet /\ str = Absent /\ CallQuiet
SrvQuiet == srv = Absent /\ conns = Absent
AsmQuiet == asm = Absent

InitFSM == FsmInit /\ AcqQuiet /\ SessQuiet /\ PipeQuiet /\ SrvQuiet /\ AsmQuiet
NextFSM == FsmApply
SpecFSM == InitFSM /\ [][NextFSM]_vars

\* Transition called on any State value, a declared one or not, and then on
\* whatever it returned.
InitTransition ==
    /\ fsmCur \in States \cup UnknownStates
    /\ fsmPrev = fsmCur
    /\ fsmEv = "none"
    /\ fsmErr = ErrNil
    /\ fsmSteps = 0
    /\ AcqQuiet /\ SessQuiet /\ PipeQuiet /\ SrvQuiet /\ AsmQuiet
SpecTransition == InitTransition /\ [][NextFSM]_vars

InitAcquire == AcqInit /\ FsmQuiet /\ SessQuiet /\ PipeQuiet /\ SrvQuiet /\ AsmQuiet
NextAcquire ==
    \E p \in Procs :
        \/ ToggleTryForward(p)
        \/ AcqListen(p)
        \/ AcqProbe(p)
        \/ AcqRemoveAndRetry(p)
        \/ ToggleRetryForward(p)
        \/ OwnerServe(p)
        \/ OwnerServeCloseListener(p)
        \/ OwnerServeReturn(p)
        \/ OwnerServeFail(p)
        \/ OwnerRun(p)
        \/ OwnerReport(p)
        \/ OwnerRemove(p)
SpecAcquire == InitAcquire /\ [][NextAcquire]_vars

\* One Run of the controller, as commandToggle makes it, served by
\* concurrent IPC connections.
InitSession == SessInit /\ FsmQuiet /\ AcqQuiet /\ PipeQuiet /\ SrvQuiet /\ AsmQuiet
NextSession ==
    \/ RunStart(1)
    \/ RunPipelineStart(1)
    \/ RunCtxDone(1)
    \/ RunTakeAction(1)
    \/ RunCancelTransition(1)
    \/ RunStopTransition(1)
    \/ RunStopAndTranscribe(1)
    \/ RunCommit(1)
    \/ RunTranscribed(1)
    \/ RunToError(1)
    \/ RunToReset(1)
    \/ RunReturn(1)
    \/ CtxCancel
    \/ \E h \in Handlers :
        \/ \E cmd \in Commands : Handle(h, cmd)
        \/ HandleEnqueue(h)
        \/ HandleClose(h)
SpecSession == InitSession /\ [][NextSession]_vars

\* Run called again on the same Controller, before, while or after another
\* Run call is in progress, with one IPC connection at a time.
NextReentrant ==
    \/ \E r \in Runs :
        \/ RunStart(r)
        \/ RunPipelineStart(r)
        \/ RunCtxDone(r)
        \/ RunTakeAction(r)
        \/ RunCancelTransition(r)
        \/ RunStopTransition(r)
        \/ RunStopAndTranscribe(r)
        \/ RunCommit(r)
        \/ RunTranscribed(r)
        \/ RunToError(r)
        \/ RunToReset(r)
        \/ RunReturn(r)
    \/ CtxCancel
    \/ \E cmd \in Commands : Handle(1, cmd)
    \/ HandleEnqueue(1)
    \/ HandleClose(1)
SpecReentrant == InitSession /\ [][NextReentrant]_vars

\* One Transcriber: Start, the source's deliveries, the sender task, the
\* receive task, the context watcher and the owner's terminal calls.
InitPipeline ==
    PipeInit /\ CallQuiet /\ FsmQuiet /\ AcqQuiet /\ SessQuiet /\ SrvQuiet /\ AsmQuiet
NextPipeline ==
    \/ StartBegin
    \/ StartPrepare
    \/ StartDial
    \/ StartCaptureStep
    \/ StartSpawn
    \/ StartReturn
    \/ \E who \in {"start", "term"} : CloseDebugArtifacts(who)
    \/ OnPCMEnter
    \/ OnPCMCount
    \/ OnPCMSendChunk
    \/ OnPCMStopped
    \/ OnPCMReturn
    \/ \E c \in StopCallers :
        \/ StopEnter(c)
        \/ StopWait(c)
        \/ StopFlush(c)
        \/ StopClose(c)
    \/ WatchFire
    \/ WatchDone
    \/ PipeCtxCancel
    \/ RecvError
    \/ RecvEOF
    \/ SendLoopInit
    \/ SendLoopRecv
    \/ SendLoopDrained
    \/ SendAudioCheck
    \/ SendAudioFrame
    \/ SendLoopReport
    \/ \E kind \in {"stop", "cancel"} : TermCall(kind)
    \/ TermStopped
    \/ TermAwaitSendErr
    \/ TermStreamCancel
    \/ TermCloseSend
    \/ TermCollect
    \/ TermReturn
SpecPipeline == InitPipeline /\ [][NextPipeline]_vars

\* One dialled Stream: the receive task, and direct SendAudio,
\* CloseAndCollect and Cancel calls made while it runs.
InitStream ==
    /\ str = [StrZero EXCEPT !.live = TRUE]
    /\ CallInit
    /\ CapQuiet
    /\ FsmQuiet /\ AcqQuiet /\ SessQuiet /\ SrvQuiet /\ AsmQuiet
NextStream ==
    \/ RecvResult(MaxStreamResults)
    \/ RecvError
    \/ RecvEOF
    \/ \E n \in ChunkLens : CallSendAudio(n)
    \/ CallSendAudioFrame
    \/ CallCtxCancel
    \/ CallCloseAndCollect
    \/ CollectRecvDone
    \/ CollectCtxDone
    \/ CallCancel
SpecStream == InitStream /\ [][NextStream]_vars

\* The segment merger on its own: the receive task up to the end of the
\* stream, and CloseAndCollect calls with a context that stays live.
NextMerge ==
    \/ RecvResult(MaxResults)
    \/ RecvEOF
    \/ CallCloseAndCollect
    \/ CollectRecvDone
SpecMerge == InitStream /\ [][NextMerge]_vars

\* One Serve call on the owner's listener, with clients that dial, write
\* request lines and hang up in any order.
InitServe == SrvInit /\ FsmQuiet /\ AcqQuiet /\ SessQuiet /\ PipeQuiet /\ AsmQuiet
NextServe ==
    \/ SrvCtxCancel
    \/ SrvCloseListener
    \/ SrvAcceptError
    \/ SrvWaitReturn
    \/ \E c \in Conns :
        \/ ClientDial(c)
        \/ \E line \in Lines : ClientWrite(c, line)
        \/ ClientClose(c)
        \/ SrvAccept(c)
        \/ ConnRead(c)
        \/ ConnHandle(c)
        \/ ConnClose(c)
SpecServe == InitServe /\ [][NextServe]_vars

\* Serve as the Go scheduler runs it: a goroutine of the server that can
\* take a step takes it in the end (the goroutine that closes the listener,
\* Accept on the closed listener, wg.Wait, and each connection goroutine).
\* A client is another process: nothing makes it write or hang up.
FairServe ==
    /\ WF_vars(SrvCloseListener)
    /\ WF_vars(SrvAcceptError /\ srv.lnClosed)
    /\ WF_vars(SrvWaitReturn)
    /\ \A c \in Conns :
          /\ WF_vars(SrvAccept(c))
          /\ WF_vars(ConnRead(c))
          /\ WF_vars(ConnHandle(c))
          /\ WF_vars(ConnClose(c))
SpecServeLive == InitServe /\ [][NextServe]_vars /\ FairServe

\* Assemble on a list of segments, then on the one-segment list of what it
\* returned, under the same options.
InitAssemble == AsmInit /\ FsmQuiet /\ AcqQuiet /\ SessQuiet /\ PipeQuiet /\ SrvQuiet
NextAssemble ==
    \/ AsmAssemble
    \/ AsmReassemble
SpecAssemble == InitAssemble /\ [][NextAssemble]_vars


----------------------------------------------------------------------------
(* Claims about the FSM                                                     *)

\* The transition table of the design, written out pair by pair.
FsmTable ==
    { <<StateIdle, EventStart, StateRecording>>,
      <<StateRecording, EventStop, StateTranscribing>>,
      <<StateRecording, EventCancel, StateIdle>>,
      <<StateTranscribing, EventTranscribed, StateIdle>>,
      <<StateError, EventReset, StateIdle>>,
      <<StateIdle, EventFail, StateError>>,
      <<StateRecording, EventFail, StateError>>,
      <<StateTranscribing, EventFail, StateError>>,
      <<StateError, EventFail, StateError>> }

\* C3: every applied (state, event) pair yields exactly the table's result
\* with no error; every pair outside the table leaves the state unchanged and
\* returns "invalid transition"; hence the error state is left only by reset.
C3_TransitionMatchesTable ==
    fsmEv # "none" =>
        /\ fsmPrev \in States
        /\ IF \E s \in States : <<fsmPrev, fsmEv, s>> \in FsmTable
           THEN <<fsmPrev, fsmEv, fsmCur>> \in FsmTable /\ fsmErr = ErrNil
           ELSE fsmCur = fsmPrev /\ fsmErr = ErrInvalid
        /\ (fsmPrev = StateError /\ fsmCur # StateError) => fsmEv = EventReset

\* C3 witness: a fail applied in the error state kept it in error, after an
\* earlier reset had been the way out.
C3_Witness ==
    /\ fsmSteps >= 3
    /\ fsmPrev = StateError
    /\ fsmEv = EventFail
    /\ fsmCur = StateError
    /\ fsmErr = ErrNil

----------------------------------------------------------------------------
(* Claims about the single-instance acquirer                                *)

\* C1: at most one invocation at a time holds an open listener obtained
\* from Acquire for the socket path.
C1_AtMostOneListener ==
    Cardinality({p \in Procs : lnOpen[p]}) <= 1

----------------------------------------------------------------------------
(* Claims about the session controller                                      *)

\* The last two FSM events a Run applied are fail then reset.
EndsFailReset(r) ==
    /\ Len(runEvents[r]) >= 2
    /\ runEvents[r][Len(runEvents[r]) - 1] = EventFail
    /\ runEvents[r][Len(runEvents[r])] = EventReset

\* C2: whenever Run has returned, the state it read for Result.State on
\* return is idle, and a Run that returns an error has gone through fail
\* and then reset.
C2_RunReturnsIdle ==
    \A r \in Runs :
        runPc[r] = "done" =>
            /\ runRes[r].state = StateIdle
            /\ (runRes[r].err # ErrNil => EndsFailReset(r))

\* C4: the mailbox never holds more than one action; a request that reaches
\* the send in state recording is never blocked; and when an action is
\* already pending the send leaves it as it is and the reply is ok with
\* "stop already requested" (stop, toggle) or "cancel already requested".
C4_MailboxAtMostOne ==
    /\ [](Len(actions) <= 1)
    /\ [](\A h \in Handlers : hPc[h] = "enqueue" => ENABLED HandleEnqueue(h))
    /\ [][\A h \in Handlers :
            (hPc[h] = "enqueue" /\ hPc'[h] = "done" /\ actions # <<>>) =>
                /\ actions' = actions
                /\ hResp'[h].ok
                /\ hResp'[h].state = StateRecording
                /\ hResp'[h].message =
                      (IF hCmd[h] = "cancel" THEN "cancel already requested"
                                            ELSE "stop already requested")]_vars

\* C4 witness: a cancel request was answered "cancel already requested"
\* while the stop action enqueued earlier is still the pending one.
C4_Witness ==
    \E h \in Handlers :
        /\ hPc[h] = "done"
        /\ hCmd[h] = "cancel"
        /\ hResp[h].message = "cancel already requested"
        /\ actions = <<actionStop>>
        /\ ctlState = StateRecording


----------------------------------------------------------------------------
(* Claims about the capture and the pipeline                                *)

\* The chunks of seq are consecutive slices of the byte stream starting at
\* offset 0 and ending at offset total.
RECURSIVE CoversFrom(_, _, _)
CoversFrom(seq, lo, total) ==
    IF seq = <<>>
    THEN lo = total
    ELSE /\ Head(seq)[1] = lo
         /\ Head(seq)[2] > 0
         /\ CoversFrom(Tail(seq), lo + Head(seq)[2], total)

\* C5: once Stop has completed (the chunk sequence is closed), the byte
\* counter equals the length of the raw-PCM mirror, and the emitted chunks,
\* concatenated in order, are exactly the captured byte stream: they start
\* at offset 0, each begins where the previous one ended, and they end at
\* the mirror's length.
C5_EmittedEqualsCaptured ==
    cap.closed =>
        /\ cap.bytes = cap.rawLen
        /\ CoversFrom(cap.emitted, 0, cap.rawLen)

\* C6: when the send half is closed by StopAndTranscribe's CloseAndCollect
\* (the sender reported no error), the chunk sequence is closed and the
\* frames passed to the stream's send before the half-close are exactly the
\* emitted chunks, in order.
C6_FramesAreEmittedChunks ==
    str.closedBy = "collect" =>
        /\ cap.closed
        /\ str.closeAt = Len(str.sent)
        /\ str.sent = cap.emitted

\* C6 witness: the half-close by CloseAndCollect happened after three chunks,
\* the last one a residual, were emitted and forwarded.
C6_Witness ==
    /\ str.closedBy = "collect"
    /\ Len(cap.emitted) = 3
    /\ cap.emitted[3][2] < chunkSizeBytes
    /\ str.sent = cap.emitted

\* C7: after a terminal method has returned, the capture is stopped with its
\* chunk sequence closed, the stream's connection is closed, and the debug
\* sink is not open.
C7_TerminalReleasesAll ==
    term.calls >= 1 =>
        /\ cap.stopped
        /\ cap.closed
        /\ str.connCloseCalls >= 1
        /\ tr.debug # "open"

\* C8: once a first terminal call has returned, a further terminal call
\* never waits for a sender outcome that cannot arrive, and the stream is
\* not cancelled or its connection closed a second time.
C8_SecondTerminalCallIsNoop ==
    term.calls >= 1 =>
        /\ ~(term.pc = "await" /\ snd.pc = "done" /\ tr.errCh = <<>>)
        /\ str.cancelCalls <= 1
        /\ str.connCloseCalls <= 1

\* C9: a Start in which dialing or starting the capture failed is never
\* stuck before its return, and once it has returned the stream it opened
\* has been cancelled, the debug sink is not open, the instance is not
\* started and no sender task runs.
C9_StartFailureReturns ==
    tr.startErr \in {"dial", "capture"} =>
        /\ tr.startPc = "closeDebug" => ENABLED CloseDebugArtifacts("start")
        /\ tr.startPc = "done" =>
            /\ tr.stream => str.cancelCalls >= 1
            /\ tr.debug # "open"
            /\ ~tr.started
            /\ snd.pc = "none"

\* C10: the chunk sequence is closed at most once, it has been closed
\* exactly once when a Stop that found the capture running returns, nothing
\* is sent on it after the close, and no delivery is still in flight then.
C10_ChunksClosedOnce ==
    /\ cap.closeCount <= 1
    /\ cap.closed <=> cap.closeCount = 1
    /\ ~cap.sendAfterClose
    /\ cap.closed => cap.inflight = 0 /\ src.pc \notin {"count", "send"}

\* C10 witness: the sequence is closed after the pipeline, the sender (after
\* a send error) and the watcher have all called Stop, and a delivery was
\* cut short by the stop.
C10_Witness ==
    /\ cap.closed
    /\ term.calls >= 1
    /\ watch = "done"
    /\ snd.pc = "done" /\ snd.err # "nil"
    /\ src.pc = "eof"
    /\ cap.pendLo > Len(cap.emitted) * chunkSizeBytes

\* C11: when a call to Capture.Stop returns (the first call, a repeated one
\* or one concurrent with another), the residual has been flushed and the
\* chunk sequence is closed, so that no chunk is emitted afterwards.
C11_StopReturnsAfterClose ==
    \A c \in StopCallers :
        stopPc[c] = "ret" => cap.closed /\ cap.pendLo = cap.rawLen

\* The bytes left in pending when Stop flushes: what follows the last full
\* chunk of the accepted stream.
ResidualLen == cap.rawLen % chunkSizeBytes

\* C12: once the sequence is closed, a non-empty residual is its last
\* element, holding exactly the bytes after the last full chunk, and every
\* other emitted chunk is exactly 640 bytes long.
C12_ResidualFlushedLast ==
    cap.closed =>
        /\ ResidualLen > 0 =>
            /\ cap.emitted # <<>>
            /\ cap.emitted[Len(cap.emitted)] = Chunk(cap.rawLen - ResidualLen, ResidualLen)
        /\ \A i \in 1..Len(cap.emitted) :
            \/ cap.emitted[i][2] = chunkSizeBytes
            \/ i = Len(cap.emitted) /\ cap.emitted[i][2] = ResidualLen

----------------------------------------------------------------------------
(* Claims about the single-instance acquirer                                *)

\* C13: a probe step of Acquire leaves the path, its owner and every
\* listener as they were; it returns "already running" when the listener
\* answers and the probe error when the listener does not answer in time,
\* and it goes on to the removal only when no live listener was behind the
\* path at the probe.
C13_RemoveOnlyAfterDeadProbe ==
    [][\A p \in Procs :
        (acqPc[p] = "probe" /\ acqPc'[p] # "probe") =>
            /\ sockPath' = sockPath /\ sockOwner' = sockOwner /\ lnOpen' = lnOpen
            /\ (LiveListener /\ serving[sockOwner]) =>
                    acqPc'[p] = "retry" /\ acqResult'[p] = "already_running"
            /\ (LiveListener /\ ~serving[sockOwner]) =>
                    acqPc'[p] = "exited" /\ acqResult'[p] = "probe_error"
            /\ acqPc'[p] = "remove" => ~LiveListener]_vars

\* C13 witness: an Acquire returned "already running" and the answering
\* owner's socket is still in place.
C13_Witness ==
    \E p \in Procs :
        /\ acqResult[p] = "already_running"
        /\ LiveListener /\ sockOwner # p /\ serving[sockOwner]

\* No other invocation has started: p is the only caller so far.
Alone(p) == \A q \in Procs \ {p} : acqPc[q] = "start"

----------------------------------------------------------------------------
(* Claims about the session controller                                      *)

\* The refusal a stop, toggle or cancel request gets in a state other than
\* recording.
Refusal(cmd, state) ==
    IF state = StateTranscribing
    THEN IF cmd = "cancel" THEN "cannot cancel while transcribing"
                           ELSE "already transcribing"
    ELSE "cannot " \o cmd \o " from state " \o state

\* C15: a stop, toggle or cancel request goes on to the mailbox send only
\* when Handle observed state recording; in any other state it is answered
\* with ok=false, the observed state and the refusal text for that state,
\* and the step changes neither the FSM state nor the mailbox.  The mailbox
\* only grows by a request that went on to the send.
C15_EnqueueOnlyWhenRecording ==
    [][/\ \A h \in Handlers :
            (hPc[h] = "idle" /\ hPc'[h] # "idle" /\ hCmd'[h] \in {"stop", "toggle", "cancel"}) =>
                /\ ctlState' = ctlState /\ actions' = actions
                /\ hPc'[h] = "enqueue" <=> ctlState = StateRecording
                /\ ctlState # StateRecording =>
                    /\ hPc'[h] = "done"
                    /\ ~hResp'[h].ok
                    /\ hResp'[h].state = ctlState
                    /\ hResp'[h].error = Refusal(hCmd'[h], ctlState)
       /\ Len(actions') > Len(actions) =>
            \E h \in Handlers : hPc[h] = "enqueue" /\ hPc'[h] = "done" /\ hResp'[h].ok]_vars

\* C15 witness: a cancel request was refused while transcribing and a stop
\* request was refused from idle, with the mailbox empty.
C15_Witness ==
    \E h, g \in Handlers :
        /\ hPc[h] = "done" /\ hCmd[h] = "cancel"
        /\ hResp[h].error = "cannot cancel while transcribing"
        /\ hPc[g] = "done" /\ hCmd[g] = "stop"
        /\ hResp[g].error = "cannot stop from state idle"
        /\ actions = <<>>

\* How many times name occurs in the calls Run r made.
CallCount(r, name) == Cardinality({i \in 1..Len(runCalls[r]) : runCalls[r][i] = name})

\* C16: at any point of a Run the stop, cancel and complete cues have been
\* played at most once, and a complete cue directly follows a commit that
\* did not fail; when the Run has returned, the stop cue was played exactly
\* once if it consumed a stop action and not at all otherwise, and the
\* cancel cue was played exactly once if it consumed a cancel action.
C16_CuesOncePerAction ==
    \A r \in Runs :
        /\ CallCount(r, "CueStop") <= 1
        /\ CallCount(r, "CueCancel") <= 1
        /\ CallCount(r, "CueComplete") <= 1
        /\ \A i \in 1..Len(runCalls[r]) :
            runCalls[r][i] = "CueComplete" =>
                /\ i > 1 /\ runCalls[r][i - 1] = "Commit"
                /\ runRes[r].err # ErrCommit
        /\ runPc[r] = "done" =>
            /\ CallCount(r, "CueStop") = (IF runTaken[r] = actionStop THEN 1 ELSE 0)
            /\ runTaken[r] = actionCancel => CallCount(r, "CueCancel") = 1

\* C16 witness: a Run that consumed a stop action has returned the
\* StopAndTranscribe error, the stop cue played once and no complete cue.
C16_Witness ==
    /\ runPc[1] = "done"
    /\ runTaken[1] = actionStop
    /\ runRes[1].err = ErrStop
    /\ CallCount(1, "CueStop") = 1
    /\ CallCount(1, "CueComplete") = 0

\* C17: a Run that consumed a cancel action has, when it returns, called
\* the pipeline's Cancel, called neither StopAndTranscribe nor the
\* committer, played neither the stop nor the complete cue, applied exactly
\* the start and cancel events, and returns cancelled with no error in
\* state idle.
C17_CancelActionResult ==
    \A r \in Runs :
        (runPc[r] = "done" /\ runTaken[r] = actionCancel) =>
            /\ CallCount(r, "Cancel") >= 1
            /\ CallCount(r, "StopAndTranscribe") = 0
            /\ CallCount(r, "Commit") = 0
            /\ CallCount(r, "CueStop") = 0
            /\ CallCount(r, "CueComplete") = 0
            /\ runEvents[r] = <<EventStart, EventCancel>>
            /\ runRes[r].cancelled
            /\ runRes[r].err = ErrNil
            /\ runRes[r].state = StateIdle
            /\ ctlState = StateIdle

\* C17 witness: a Run returned after consuming a cancel action.
C17_Witness ==
    /\ runPc[1] = "done"
    /\ runTaken[1] = actionCancel
    /\ runRes[1].cancelled

\* A transcript of whitespace only (the empty one included).
IsBlank(t) == \A i \in 1..Len(t) : t[i] = " "

\* C18: a Run whose StopAndTranscribe succeeded with a transcript that is
\* empty after trimming returns ErrEmptyTranscript in state idle, having
\* played the stop cue, without calling the committer or playing the
\* complete cue; and ErrEmptyTranscript is returned in no other case.
C18_EmptyTranscriptIsError ==
    \A r \in Runs :
        runPc[r] = "done" =>
            /\ (CallCount(r, "StopAndTranscribe") = 1 /\ runRes[r].err # ErrStop
                    /\ IsBlank(runRes[r].transcript)) =>
                /\ runRes[r].err = ErrEmptyTranscript
                /\ CallCount(r, "Commit") = 0
                /\ CallCount(r, "CueStop") = 1
                /\ CallCount(r, "CueComplete") = 0
                /\ runRes[r].state = StateIdle
                /\ ctlState = StateIdle
            /\ runRes[r].err = ErrEmptyTranscript =>
                CallCount(r, "StopAndTranscribe") = 1 /\ IsBlank(runRes[r].transcript)

\* C18 witness: a Run returned ErrEmptyTranscript for a transcript of one
\* space.
C18_Witness ==
    /\ runPc[1] = "done"
    /\ runRes[1].err = ErrEmptyTranscript
    /\ runRes[1].transcript = <<" ">>

\* C19: when Run leaves its wait in state recording with the context
\* cancelled, it does so by the cancellation branch, whether or not an
\* action is pending: it calls Cancel, plays the cancel cue, shows the
\* error and goes on to fail and reset with the context's error; and a Run
\* that returned the context's error played the cancel cue once, applied
\* start, fail, reset, and is not cancelled.
C19_ContextCancelWins ==
    [][\A r \in Runs :
        /\ (runPc[r] = "wait" /\ ctxDone /\ runPc'[r] # "wait") =>
            /\ runPc'[r] = "toError"
            /\ runRes'[r].err = ErrCtx
            /\ runCalls'[r] = runCalls[r] \o <<"Cancel", "CueCancel", "ShowError">>
            /\ actions' = actions
        /\ (runPc'[r] = "done" /\ runRes'[r].err = ErrCtx) =>
            /\ CallCount(r, "CueCancel") = 1
            /\ runEvents'[r] = <<EventStart, EventFail, EventReset>>
            /\ ~runRes'[r].cancelled
            /\ runRes'[r].state = StateIdle]_vars

\* The indicator calls among the calls Run r made.
IndicatorCalls == {"ShowRecording", "ShowTranscribing", "ShowError", "CueStop",
                   "CueCancel", "CueComplete", "Hide"}

\* C20: a Run that has returned, on whatever path, called the indicator's
\* Hide exactly once, and no indicator call of that Run follows it.
C20_HideOnEveryExit ==
    \A r \in Runs :
        runPc[r] = "done" =>
            /\ CallCount(r, "Hide") = 1
            /\ \E i \in 1..Len(runCalls[r]) :
                /\ runCalls[r][i] = "Hide"
                /\ \A j \in (i + 1)..Len(runCalls[r]) : runCalls[r][j] \notin IndicatorCalls

\* The Commit calls Run r made, in order.
CommitsBy(r) == SelectSeq(committed, LAMBDA c : c.by = r)

\* The three outcomes of a Result: committed transcript, cancelled, error.
OutcomeOk(r) ==
    /\ runRes[r].err = ErrNil
    /\ ~runRes[r].cancelled
    /\ Len(CommitsBy(r)) = 1
    /\ CommitsBy(r)[1].ok
    /\ CommitsBy(r)[1].text = runRes[r].transcript
    /\ runRes[r].transcript # <<>>
OutcomeCancelled(r) == runRes[r].cancelled /\ runRes[r].err = ErrNil
OutcomeErr(r) == runRes[r].err # ErrNil /\ ~runRes[r].cancelled

\* C21: every Result returned by Run has FinishedAt >= StartedAt and is
\* exactly one of: no error, not cancelled and one successful Commit of the
\* returned non-empty transcript; cancelled with no error; an error and not
\* cancelled.
C21_ResultExactlyOneOutcome ==
    \A r \in Runs :
        runPc[r] = "done" =>
            /\ runRes[r].finishedAt >= runRes[r].startedAt
            /\ runRes[r].startedAt > ZeroTime
            /\ Cardinality({k \in {"ok", "cancelled", "err"} :
                              \/ k = "ok" /\ OutcomeOk(r)
                              \/ k = "cancelled" /\ OutcomeCancelled(r)
                              \/ k = "err" /\ OutcomeErr(r)}) = 1

\* A Run that committed its transcript returned, some time after it began.
C21_Witness ==
    /\ runPc[1] = "done"
    /\ OutcomeOk(1)
    /\ runRes[1].finishedAt > runRes[1].startedAt

----------------------------------------------------------------------------
(* Claims about the IPC server                                              *)

\* C22: for every accepted connection the server reads at most one request
\* line, invokes the handler at most once, writes exactly one response line
\* and then closes the connection; a line that fails to decode is answered
\* with the single response "decode request:" (ok=false) and never reaches
\* the handler.
C22_OneRequestOneResponse ==
    \A c \in Conns :
        /\ Len(conns[c].read) <= 1
        /\ conns[c].handled <= 1
        /\ Len(conns[c].resp) <= 1
        /\ conns[c].st \in {"closing", "closed"} <=> Len(conns[c].resp) = 1
        /\ conns[c].st \in {"closing", "closed"} =>
             /\ conns[c].resp[1].delivered \/ conns[c].peerClosed
             /\ conns[c].read = <<"invalid">> =>
                    conns[c].resp[1].line = "decode request:" /\ conns[c].handled = 0
             /\ conns[c].read = <<"valid">> =>
                    conns[c].resp[1].line \in {"ok", "refused"} /\ conns[c].handled = 1
             /\ conns[c].read = <<>> =>
                    conns[c].resp[1].line = "read request:" /\ conns[c].handled = 0

\* A connection that sent a malformed line and then a well-formed one was
\* answered with the decode error and closed while the second line was
\* still unread.
C22_Witness ==
    \E c \in Conns :
        /\ conns[c].st = "closed"
        /\ conns[c].resp = <<[line |-> "decode request:", delivered |-> TRUE]>>
        /\ conns[c].inbuf = <<"valid">>

\* Connections the accept loop has handed to a goroutine.
Accepted(c) == conns[c].st \in {"read", "handle", "closing", "closed"}

\* C23: the listener is closed on cancellation of Serve's context and no
\* connection is accepted after the close; when Serve returns nil, every
\* connection accepted before has had its single response written and has
\* been closed by its goroutine.
C23_CancelDrainsConnections ==
    [][ /\ srv'.lnClosed => srv'.ctxDone
        /\ srv.lnClosed => \A c \in Conns : Accepted(c)' => Accepted(c)
        /\ srv'.ret = "nil" =>
              /\ srv'.ctxDone \/ srv'.lnClosed
              /\ srv'.wg = 0
              /\ \A c \in Conns :
                    Accepted(c)' => conns'[c].st = "closed" /\ Len(conns'[c].resp) = 1
      ]_vars

\* Serve is in wg.Wait() after the listener was closed, held up by one
\* connection that was accepted and is still waiting for its request line,
\* while the other got its response and a third party's dial was dropped.
C23_Witness ==
    /\ srv.pc = "wait"
    /\ srv.lnClosed
    /\ srv.wg > 0
    /\ \E c \in Conns : conns[c].st = "read"
    /\ \E c \in Conns : conns[c].st \in {"closed", "dropped"}

----------------------------------------------------------------------------
(* Claims about the recognition stream and the segment merger               *)

\* C24: once the stream is marked send-closed (by CloseAndCollect or by
\* Cancel), a SendAudio call with a non-empty chunk returns an error and
\* sends no frame; a SendAudio call with an empty chunk returns nil and
\* sends nothing in every stream state.
C24_SendAudioAfterClose ==
    [][ /\ str.closedSend => str'.closedSend /\ str.closedBy \in {"collect", "cancel"}
        /\ (sa.pc = "idle" /\ sa' # sa /\ sa'.n > 0 /\ str.closedSend) =>
              /\ sa'.pc = "idle"
              /\ sa'.ret \notin {ErrNil, "none"}
              /\ str'.sent = str.sent
        /\ (sa.pc = "idle" /\ sa' # sa /\ sa'.n = 0) =>
              /\ sa'.pc = "idle"
              /\ sa'.ret = ErrNil
              /\ str' = str
      ]_vars

\* A full chunk was refused on a send-closed stream after an empty chunk had
\* been accepted.
C24_Witness ==
    /\ str.closedSend
    /\ sa.calls = 2
    /\ sa.n = chunkSizeBytes
    /\ sa.ret = "stream already closed for sending"
    /\ str.sent = <<>>

CleanTexts == {cleanSegment(raw) : raw \in RawTexts} \ {<<>>}

\* append_segment as the merger policy states it, case by case.
AppendSpec(segments, t) ==
    IF segments = <<>> THEN <<t>>
    ELSE LET last == segments[Len(segments)] IN
         IF t = last THEN segments
         ELSE IF HasPrefix(t, last) THEN [segments EXCEPT ![Len(segments)] = t]
         ELSE IF HasPrefix(last, t) THEN segments
         ELSE Append(segments, t)

C27_AppendSegmentCases ==
    \A t \in CleanTexts :
        LET out == appendSegment(str.segments, t).out IN
        /\ out = AppendSpec(str.segments, t)
        /\ \A i \in 1..(Len(str.segments) - 1) : out[i] = str.segments[i]

\* Two segments were committed: the second text is no prefix relative of
\* the first.
C27_Witness ==
    /\ Len(str.segments) = 2
    /\ str.segments[1] = HelloWorld
    /\ str.segments[2] = SecondPhrase
    /\ str.lastKind = "final"

\* collect(segments, last_interim) as the merger states it.
CollectSpec(s) ==
    IF s.lastInterim = <<>> THEN s.segments ELSE AppendSpec(s.segments, s.lastInterim)

\* C28: the list CloseAndCollect returns is collect(segments, lastInterim)
\* of the final stream state, with a non-empty lastInterim fed through
\* append_segment once; collecting modifies neither segments nor
\* lastInterim, so that collecting again returns the same list; for
\* ("hello wor", interim), ("hello world", final), ("second phrase",
\* interim) the list is ["hello world", "second phrase"].
C28_CollectOnFinalState ==
    [][ /\ cc'.hasSegs => cc'.segs = CollectSpec(str')
        /\ (cc.pc = "select" /\ cc'.pc = "idle") =>
              /\ str'.segments = str.segments
              /\ str'.lastInterim = str.lastInterim
        /\ (cc'.hasSegs /\ str'.segments = <<HelloWorld>>
                /\ str'.lastInterim = SecondPhrase) =>
              cc'.segs = <<HelloWorld, SecondPhrase>>
      ]_vars

\* The second CloseAndCollect on the scenario's final state returned the
\* expected list.
C28_Witness ==
    /\ cc.pc = "idle" /\ cc.op = "collect" /\ cc.calls = 2
    /\ cc.hasSegs
    /\ str.results = 3
    /\ str.segments = <<HelloWorld>>
    /\ str.lastInterim = SecondPhrase
    /\ cc.segs = <<HelloWorld, SecondPhrase>>

\* C29: CloseAndCollect called with a context that is already cancelled
\* returns the cancellation error and no segments, whether or not the
\* receive task has ended; on every return path of CloseAndCollect the
\* connection has been closed.
C29_CancelledContextWins ==
    (cc.pc = "idle" /\ cc.op = "collect") =>
        /\ str.connCloseCalls > 0
        /\ cc.ctxAtCall => cc.err = ErrCtx /\ ~cc.hasSegs


----------------------------------------------------------------------------
(* Claims about the owner path of the toggle command                        *)

\* C30: an invocation becomes owner only from Acquire's listen step, after
\* its tryForward found no owner, and with the listener Acquire returned;
\* as owner it reports only after serverCtx was cancelled and ipc.Serve
\* returned, and it exits only after reporting, with its listener closed
\* and no socket file at the path.
C30_OwnerTeardown ==
    [][\A p \in Procs :
        /\ (acqPc[p] # "owner" /\ acqPc'[p] = "owner") =>
              /\ acqPc[p] = "listen"
              /\ own[p].forward = "no_owner"
              /\ acqResult'[p] = "listener"
              /\ lnOpen'[p] /\ sockPath' = "socket" /\ sockOwner' = p
        /\ (acqPc[p] # "retry" /\ own'[p].report \notin {"none", own[p].report}) =>
              /\ acqResult[p] = "listener"
              /\ own[p].run # "none"
              /\ own[p].srvCtxDone
              /\ own[p].srvRet # "none"
              /\ ~serving[p]
        /\ serving[p] => acqResult[p] = "listener" /\ acqPc[p] \in {"owner", "await"}
        /\ (acqResult[p] = "listener" /\ acqPc[p] # "exited" /\ acqPc'[p] = "exited") =>
              /\ own[p].report # "none"
              /\ own[p].srvCtxDone
              /\ ~lnOpen'[p]
              /\ sockPath' = "none"
        /\ (acqResult[p] = "listener" /\ acqPc[p] = "exited") => ~lnOpen'[p]
      ]_vars

\* An owner whose session ended in an error has reported it, after its
\* server returned, and its listener is closed; another owner has exited.
C30_Witness ==
    \E p, q \in Procs :
        /\ acqPc[p] = "closed"
        /\ own[p].run = "error" /\ own[p].report = "error"
        /\ own[p].srvRet = ErrNil
        /\ ~lnOpen[p]
        /\ acqPc[q] = "exited" /\ acqResult[q] = "listener"
        /\ sockPath = "none"


----------------------------------------------------------------------------
(* Claims about the FSM on undeclared states                                *)

\* C31: Transition applied to a state outside {idle, recording,
\* transcribing, error} returns the "unknown state" error and the input
\* state unchanged, for every event.
C31_UnknownStateError ==
    (fsmSteps > 0 /\ fsmPrev \notin States) =>
        /\ fsmErr = ErrUnknownSt
        /\ fsmCur = fsmPrev

----------------------------------------------------------------------------
(* Claims about transcript.Assemble                                         *)

----------------------------------------------------------------------------
(* Claims about requests and the Run that serves them                       *)

\* C33: every request Handle acknowledged with "stop requested" or "cancel
\* requested" is consumed by the Run in progress: when Run has returned the
\* action mailbox is empty.
C33_MailboxEmptyAtReturn ==
    \A r \in Runs : runPc[r] = "done" => actions = <<>>

\* C34: the teardown of an owner (listener closed, then the socket path
\* removed) never removes the socket file of another invocation that bound
\* the path after the exiting owner's listener was closed.
C34_TeardownSparesOthers ==
    [][\A p \in Procs :
          (acqPc[p] = "closed" /\ acqPc'[p] = "exited") =>
              ~(LiveListener /\ sockOwner # p)]_vars


----------------------------------------------------------------------------
(* Claims about the sender task and the send half of the stream             *)

\* C35: no audio frame is transmitted on the stream once its send half has
\* been closed, whatever the interleaving of the sender task's SendAudio with
\* the terminal call's Cancel or CloseAndCollect.
C35_NoFrameAfterCloseSend ==
    [][Len(str'.sent) > Len(str.sent) => ~str.closedSend]_vars


----------------------------------------------------------------------------
(* Claims about the termination of Serve                                    *)

\* C36: once the context passed to Serve is cancelled, Serve eventually
\* returns, whatever the connected clients do, in particular when a client
\* has connected and never sends a request line.
C36_ServeReturnsAfterCancel ==
    srv.ctxDone ~> srv.pc = "returned"


----------------------------------------------------------------------------
(* Claims about the exit status of the toggle command                       *)

\* The value commandToggle returns, read where it returns: as owner from
\* what it reported, after ErrAlreadyRunning from the second forward, and
\* otherwise from the first forward or Acquire's error.
ExitStatus(p) ==
    IF acqResult[p] = "listener"
    THEN IF own[p].report \in {"cancelled", "transcript"} THEN 0 ELSE 1
    ELSE IF acqResult[p] = "already_running"
    THEN IF own[p].report = "error" THEN 1 ELSE 0
    ELSE IF acqResult[p] = "forwarded" THEN 0
    ELSE 1

\* C37: a toggle invocation exits with status 0 only if an existing owner
\* answered its command ok, or it ran a session as owner that ended in
\* success or in a user cancel; when Acquire reports already-running and the
\* second forward finds no owner to answer, it does not report success.
C37_SuccessMeansHandled ==
    [][\A p \in Procs :
        (acqPc[p] # "exited" /\ acqPc'[p] = "exited") =>
            IF acqResult[p] = "listener"
            THEN ExitStatus(p) = 0 => own[p].run \in {"ok", "cancelled"}
            ELSE ExitStatus(p)' = 0 =>
                    \/ acqResult'[p] = "forwarded"
                    \/ acqResult'[p] = "already_running" /\ own'[p].forward = "handled"
      ]_vars


----------------------------------------------------------------------------
(* Claims about the pipeline calls of a Run                                 *)

\* The terminal pipeline calls Run r has made.
TerminalCalls(r) == CallCount(r, "Cancel") + CallCount(r, "StopAndTranscribe")

\* C38: in every Run the pipeline's Start is called at most once; after a
\* Start that succeeded exactly one terminal pipeline call (Cancel or
\* StopAndTranscribe, not both, not twice) is made before Run returns; after
\* a Start that failed, or a start transition that failed, there is no
\* terminal call and no commit.
C38_OneTerminalCallPerStart ==
    \A r \in Runs :
        /\ CallCount(r, "Start") <= 1
        /\ TerminalCalls(r) <= 1
        /\ runDefer[r] => CallCount(r, "Start") = 1 /\ runRes[r].err # ErrStart
        /\ (runPc[r] = "done" /\ runDefer[r]) => TerminalCalls(r) = 1
        /\ ~runDefer[r] => TerminalCalls(r) = 0 /\ CallCount(r, "Commit") = 0

\* A Run whose Start succeeded consumed a stop action, made
\* StopAndTranscribe its one terminal call, committed and returned.
C38_Witness ==
    /\ runPc[1] = "done" /\ runDefer[1]
    /\ CallCount(1, "Start") = 1
    /\ CallCount(1, "StopAndTranscribe") = 1 /\ CallCount(1, "Cancel") = 0
    /\ CallCount(1, "Commit") = 1


\* The errors Stream.SendAudio returns to the sender task.
SendAudioErrors ==
    {"stream already closed for sending", "stream receive loop failed", "send failed"}

\* C39: the sender task reports exactly one outcome per successful Start on
\* the one-slot channel and never blocks doing so: the error of its first
\* failed SendAudio, after it stopped the capture and with no further chunk
\* forwarded, or nil once the chunk sequence is closed and drained.
C39_SenderReportsOnce ==
    /\ snd.reported <= 1
    /\ Len(tr.errCh) <= snd.reported
    /\ snd.reported = 1 <=> snd.pc = "done"
    /\ snd.pc \in {"stop", "report", "done"} =>
          IF snd.err = "nil"
          THEN /\ snd.pc = "done"
               /\ cap.closed /\ QueueLen = 0
               /\ str.sent = SubSeq(cap.emitted, 1, cap.read)
               /\ tr.errCh \in {<<>>, <<"nil">>}
          ELSE /\ snd.err \in SendAudioErrors
               /\ snd.pc \in {"report", "done"} => cap.stopped
               /\ str.sent = SubSeq(cap.emitted, 1, cap.read - 1)
               /\ tr.errCh \in {<<>>, <<snd.err>>}
    /\ tr.errCh # <<>> => snd.pc = "done"

\* The sender task has reported a failed send after one frame went through,
\* with a chunk still queued that it will not forward.
C39_Witness ==
    /\ snd.pc = "done"
    /\ tr.errCh = <<"send failed">>
    /\ Len(str.sent) = 1
    /\ cap.read = 2
    /\ Len(cap.emitted) = 3


----------------------------------------------------------------------------
(* Claims about the controller's state and its observers                    *)

\* The state the FSM reaches from state by the events, in order.
RECURSIVE Replay(_, _)
Replay(state, events) ==
    IF events = <<>> THEN state
    ELSE Replay(Transition(state, Head(events)).state, Tail(events))

\* C40: the controller's state changes only by a transition step of a Run,
\* along an edge of the transition table, so that it is always the end of a
\* path from idle made of the events the Run applied; and every value an
\* observer gets (a response's state, the state of a Result) is the state at
\* the step that read it, hence successive observations follow that path.
C40_StateOnlyByTransition ==
    [][ /\ ctlState' # ctlState =>
              \E r \in Runs, e \in Events :
                  /\ Transition(ctlState, e) = [state |-> ctlState', err |-> ErrNil]
                  /\ runEvents'[r] = Append(runEvents[r], e)
                  /\ runPc'[r] # runPc[r]
        /\ runEvents' # runEvents => ctlState' = Replay(StateIdle, runEvents'[1])
        /\ \A h \in Handlers :
              /\ (hPc[h] = "idle" /\ hPc'[h] = "done") => hResp'[h].state = ctlState
              /\ (hPc[h] = "idle" /\ hPc'[h] = "enqueue") => ctlState = StateRecording
              /\ (hPc[h] = "enqueue" /\ hPc'[h] = "done") => hResp'[h].state = StateRecording
        /\ \A r \in Runs :
              (runPc[r] # "done" /\ runPc'[r] = "done") => runRes'[r].state = ctlState
      ]_vars

\* A status request was answered with transcribing while the Run, having
\* gone idle, recording, transcribing, went on to error after a failed
\* StopAndTranscribe; another request had been answered from recording.
C40_Witness ==
    /\ runEvents[1] = <<EventStart, EventStop, EventFail>>
    /\ ctlState = StateError
    /\ \E h, g \in Handlers :
          /\ hCmd[h] = "status" /\ hPc[h] = "done" /\ hResp[h].state = StateTranscribing
          /\ hPc[g] = "done" /\ hResp[g].state = StateRecording

====
